---- MODULE Spec2Model ----
(***************************************************************************)
(* Model of the cluster-data-manager job engine: the entry point, the      *)
(* backup and restore orchestrators (Task.run), and the maintenance window *)
(* (ContextMaintenance, ClusterMaintenance, NoopMaintenanceMode) they use  *)
(* as a context manager around the subtasks' run phase.                    *)
(*                                                                         *)
(* A job is one sequential process.  Its position is the index `pc` of the *)
(* statement of Task.run it is at, and `at`, the position inside that      *)
(* statement when the statement is a call that takes several steps         *)
(* (__enter__, __exit__, a subtask run).  Every call into a collaborator   *)
(* (readiness, subtasks, kubernetes API, archive, drive) either returns or *)
(* raises; nothing in Task.run or entry_point.run catches an exception.    *)
(***************************************************************************)
EXTENDS Integers, Sequences, FiniteSets, TLC

(* ----------------------------- bounds --------------------------------- *)

\* longest JOB_SUBTASKS list the environment is given
MaxJobSubtasks == 2

\* largest wait_timeout and interval a ContainersReadiness is built with, and
\* the longest a single probe call takes, in seconds
MaxWaitTimeout == 3

MaxInterval == 2

MaxProbeTime == 1

\* most records one mc command prints, and most public operations one
\* McCommands is asked for
MaxRecords == 2

MaxOperations == 2

\* most buckets in the list of an S3 subtask
MaxBuckets == 2

\* most Report nodes built
MaxReports == 3

\* most reads of the status file in one Keycloak.run
MaxPolls == 3

\* most keyspaces and most tables in the lists of the Cassandra subtask
MaxKeyspaces == 2

MaxTables == 2

\* most archives a drive lists
MaxArchives == 3

\* most rows the table holds when it is counted
MaxRows == 2

\* most characters of the file handed to restore_ddl or restore_table
MaxText == 4

\* most lines of the stderr of the replayed script
MaxErrLines == 2

(* --------------------------- program data ------------------------------ *)

\* Python's None: the value of an absent ingressClassName and of the
\* not-yet-cached originals
None == "None"

\* time.sleep(5) at the end of _set_up_maintenance_mode
SettleDelay == 5

\* what argv[1] is taken from here: two tasks of tasks_builder and a name it does not know
TaskNames == {"backup", "restore", "unknown"}

tasks_builder == {"setup", "backup", "restore"}

\* the elements a JOB_SUBTASKS list is made of
JobSubtasksValues == {"all", "s3", "cassandra", "keycloak"}

\* values the ingress className and the ConfigMap entry may hold before the job
IngressClassNames == {None, "classA", "classB"}

ConfigMapValues == {"valX", "valY"}

\* MaintenanceDetails: the values the two attributes take during maintenance
details == [ingress_class_name |-> "classB", config_map_value |-> "valY"]

JobSubtasksLists == UNION {[1..n -> JobSubtasksValues] : n \in 0..MaxJobSubtasks}

VARIABLES
    task_name,                    \* argv[1]
    job_subtasks,                 \* env JOB_SUBTASKS, a list
    maintenance_enable,           \* env MAINTENANCE_ENABLE
    pc,                           \* index of the current statement of Task.run; 0 before the task is built
    at,                           \* position inside the current statement
    state,                        \* "running", "done" (run returned) or "failed" (an exception left run)
    exc,                          \* the exception in flight, NoExc when there is none
    ingress_class_name,           \* cluster: spec.ingressClassName of the Ingress
    config_map_value,             \* cluster: the ConfigMap data entry
    original_ingress_class_name,  \* ClusterMaintenance._original_ingress_class_name
    original_config_map_value,    \* ClusterMaintenance._original_config_map_value
    status,                       \* status of the window's report
    pre_enter,                    \* ghost: the two cluster values when __enter__ was called
    trace                         \* ghost: the calls made so far, in order, with their outcome

\* ContainersReadiness, its probes, the clock and the two containers it probes
VARIABLES
    wait_timeout,                 \* ContainersReadiness.wait_timeout, in seconds
    interval,                     \* ContainersReadiness.interval, in seconds
    probes,                       \* ContainersReadiness.probes, a list of probe names
    now,                          \* the clock: seconds since wait() was called
    give_up_at,                   \* the local give_up_at of wait(), Unset before it is computed
    wait_pc,                      \* "call", "probing", "sleeping", "deadline", then
                                  \* "returned", "raised" (the timeout) or "failed" (a probe raised)
    probe_index,                  \* index in probes of the probe all() calls next
    sleep_left,                   \* seconds left of the time.sleep in progress
    marker,                       \* keycloak container: content of its status file
    health,                       \* minio container: what a GET of its health live URL meets
    probe_time,                   \* ghost: seconds spent inside the probes so far
    ready_since,                  \* ghost: since when every probe of the list would return
                                  \* True without interruption, Unset if one would not
    wait_trace                    \* ghost: the steps of wait() since its last sleep ended:
                                  \* that sleep, the deadline test, the probe calls

job_vars == <<task_name, job_subtasks, maintenance_enable, pc, at, state, exc,
              ingress_class_name, config_map_value,
              original_ingress_class_name, original_config_map_value,
              status, pre_enter, trace>>

readiness_vars == <<wait_timeout, interval, probes, now, give_up_at, wait_pc, probe_index,
                    sleep_left, marker, health, probe_time, ready_since, wait_trace>>

\* McCommands, the mc command it runs, and the locals of the operation in progress
VARIABLES
    aliases_setup_done,           \* McCommands._aliases_setup_done
    mc_state,                     \* "idle" (no operation in progress), "running", or
                                  \* "failed" (an exception left the operation)
    mc_operation,                 \* the public operation called last
    mc_todo,                      \* the statements the operation has still to execute
    popen,                        \* "open" while _run_command reads a command's output
    bucket_du,                    \* _du_bucket: (bucket_objects, bucket_size)
    source_du,                    \* _mirror_buckets: (source_bucket_objects, source_bucket_size)
    target_du,                    \* _mirror_buckets: (target_bucket_objects, target_bucket_size)
    mc_exc,                       \* the exception that left the operation, NoMcExc if none
    operations,                   \* ghost: number of public operations called so far
    parsed,                       \* ghost: the records read from the output of the command
    handed,                       \* ghost: the records passed to on_success, for that command
    mc_log,                       \* ghost: the commands run and the sleeps of the operation
    slept,                        \* ghost: seconds the operation has slept
    reads,                        \* ghost: the disk usages _mirror_buckets was returned
    registrations,                \* ghost: the `alias set` commands run since construction
    needed_at                     \* ghost: number of the first operation that called
                                  \* _need_aliases, 0 if none has

mc_vars == <<aliases_setup_done, mc_state, mc_operation, mc_todo, popen, bucket_du,
             source_du, target_du, mc_exc, operations, parsed, handed, mc_log, slept,
             reads, registrations, needed_at>>

\* CqlshCommands.backup_table, its locals and its output file
VARIABLES
    cq_pc,                        \* "idle", "_count_table", "copy", "streaming", "check",
                                  \* "write", then "returned" or "failed"
    total,                        \* backup_table: total, Unset before _count_table returns
    count,                        \* backup_table: count
    out,                          \* backup_table: out, as the list of the lines appended
    path_file_exists,             \* whether path_file has been written
    path_file_text,               \* the lines of path_file
    cq_exc,                       \* the exception that left backup_table, "" if none
    copies                        \* ghost: number of COPY ... TO STDOUT commands run

cqlsh_vars == <<cq_pc, total, count, out, path_file_exists, path_file_text, cq_exc, copies>>

\* CqlshCommands.restore_ddl and restore_table, their locals and input file
VARIABLES
    restore_pc,                   \* "idle"; "replay", "describe" in restore_ddl; "copy",
                                  \* "count" in restore_table; then "returned" or "failed"
    restore_op,                   \* the method called, "" before the call
    restore_file,                 \* path_file.read_text('utf8'), as its characters
    restore_code,                 \* code, Unset before a command has run
    restore_out,                  \* restore_ddl: out, as its characters
    restore_err,                  \* restore_ddl: err.splitlines()
    warnings,                     \* number of report.warning calls
    restore_total,                \* restore_table: total
    actual_total,                 \* restore_table: actual_total
    restore_exc                   \* the exception that left the method

cqlrestore_vars == <<restore_pc, restore_op, restore_file, restore_code, restore_out,
                     restore_err, warnings, restore_total, actual_total, restore_exc>>

\* ArchiveCreator and ArchiveExtractor, the archive file and the working directory
VARIABLES
    archiver_phase,               \* "creator", then "extractor" once existing_archive is called
    items,                        \* ArchiveCreator._items
    metadata,                     \* ArchiveCreator._metadata
    archive_written,              \* whether finalize has written the archive file
    archive,                      \* the members of the archive file
    archive_metadata,             \* the content of the metadata member of the archive file
    work_dir,                     \* what extraction has put under the working directory
    replaced,                     \* ghost: the item names added more than once
    last_added,                   \* ghost: for each item name, the path of its latest add
    added_keys,                   \* ghost: the keys add_metadata was called with
    archived_items,               \* ghost: _items as the latest finalize found it
    archived_metadata,            \* ghost: _metadata as the latest finalize found it
    extracted                     \* ghost: the names extract_dir_item was called with

archiver_vars == <<archiver_phase, items, metadata, archive_written, archive,
                   archive_metadata, work_dir, replaced, last_added, added_keys,
                   archived_items, archived_metadata, extracted>>

\* the run of an S3 subtask (backup or restore) over its McCommands
VARIABLES
    s3_pc,                        \* "idle", "run" (in the loop), "bucket" (in a bucket
                                  \* operation), "stop" (in stop_local), "done"
    s3_direction,                 \* "backup" or "restore", "" when no subtask runs
    s3_buckets,                   \* len(self._buckets)
    s3_index,                     \* the number of buckets the loop is done with
    stop_calls                    \* ghost: number of calls of stop_local

s3_vars == <<s3_pc, s3_direction, s3_buckets, s3_index, stop_calls>>

\* the Report nodes built so far and the Reporting they write to
VARIABLES
    reports,                      \* the Report nodes, in the order of their construction
    called,                       \* ghost: the method called last and the node it was called on
    last_line                     \* the tasks and the status of the line _write_log wrote last

report_vars == <<reports, called, last_line>>

\* Keycloak.run, the status file it watches and the window it runs in
VARIABLES
    status_file,                  \* the text of the keycloak status file
    kc_pc,                        \* where run is: "idle", "while", "returned", "failed"
    kc_status,                    \* status: what run read last, stripped
    previous_status,              \* previous_status
    kc_reads,                     \* ghost: how many times run has read the file
    kc_slept,                     \* ghost: the seconds run has slept
    kc_exc,                       \* the message of the exception that left run, or ""
    window                        \* the maintenance window run is called in

kc_vars == <<status_file, kc_pc, kc_status, previous_status, kc_reads, kc_slept, kc_exc,
             window>>

\* the run of the Cassandra subtask of the restore task
VARIABLES
    keyspaces,                    \* self._keyspaces
    tables,                       \* self._tables
    cass_pc,                      \* "idle", "keyspaces", "tables", "returned", "failed"
    cass_index,                   \* the place in the list of the loop run is in
    cass_calls                    \* ghost: the calls made to restore_ddl and restore_table

cass_vars == <<keyspaces, tables, cass_pc, cass_index, cass_calls>>

\* the run of the setup task and the drive it lists
VARIABLES
    drive,                        \* the archives the drive holds
    archive_name,                 \* self._archive_name
    setup_pc,                     \* "idle", "archive", "__setup_archive", "returned", "failed"
    listed,                       \* ghost: list_archives has returned
    archives,                     \* archives: what list_archives returned
    archive_id,                   \* the file id handed to __setup_archive, or 0
    downloaded,                   \* the file id download was called with, or 0
    setup_extracted,              \* the items have been extracted
    setup_status_file,            \* the text run wrote to the keycloak status file
    setup_exc                     \* the message of the exception that left run, or ""

setup_vars == <<drive, archive_name, setup_pc, listed, archives, archive_id, downloaded,
                setup_extracted, setup_status_file, setup_exc>>

\* the state of the services the job engine calls into
service_vars == <<readiness_vars, mc_vars, cqlsh_vars, cqlrestore_vars, archiver_vars, s3_vars, report_vars, kc_vars, cass_vars, setup_vars>>

outside_readiness == <<job_vars, mc_vars, cqlsh_vars, cqlrestore_vars, archiver_vars, s3_vars, report_vars, kc_vars, cass_vars, setup_vars>>

outside_mc == <<job_vars, readiness_vars, cqlsh_vars, cqlrestore_vars, archiver_vars, s3_vars, report_vars, kc_vars, cass_vars, setup_vars>>

outside_cqlsh == <<job_vars, readiness_vars, mc_vars, cqlrestore_vars, archiver_vars, s3_vars, report_vars, kc_vars, cass_vars, setup_vars>>

outside_cqlrestore == <<job_vars, readiness_vars, mc_vars, cqlsh_vars, archiver_vars, s3_vars, report_vars, kc_vars, cass_vars, setup_vars>>

outside_archiver == <<job_vars, readiness_vars, mc_vars, cqlsh_vars, cqlrestore_vars, s3_vars, report_vars, kc_vars, cass_vars, setup_vars>>

outside_mc_and_s3 == <<job_vars, readiness_vars, cqlsh_vars, cqlrestore_vars, archiver_vars, report_vars, kc_vars, cass_vars, setup_vars>>

outside_report == <<job_vars, readiness_vars, mc_vars, cqlsh_vars, cqlrestore_vars, archiver_vars, s3_vars, kc_vars, cass_vars, setup_vars>>

outside_kc == <<job_vars, readiness_vars, mc_vars, cqlsh_vars, cqlrestore_vars, archiver_vars, s3_vars, report_vars, cass_vars, setup_vars>>

outside_cass == <<job_vars, readiness_vars, mc_vars, cqlsh_vars, cqlrestore_vars, archiver_vars, s3_vars, report_vars, kc_vars, setup_vars>>

outside_setup == <<job_vars, readiness_vars, mc_vars, cqlsh_vars, cqlrestore_vars, archiver_vars, s3_vars, report_vars, kc_vars, cass_vars>>

vars == <<job_vars, service_vars>>

config_vars == <<task_name, job_subtasks, maintenance_enable>>

cluster_vars == <<ingress_class_name, config_map_value>>

cache_vars == <<original_ingress_class_name, original_config_map_value>>

Contains(list, x) == \E i \in DOMAIN list : list[i] = x

(* ---------------------- containers readiness: data -------------------- *)

\* a local that is not bound yet, a time that is not defined
Unset == -1

\* the defaults of the dataclass fields wait_timeout and interval
DefaultWaitTimeout == 300

DefaultInterval == 5

\* time.sleep(5) in the loop of Keycloak.run
StatusPollDelay == 5

\* class KeycloakStatus
KeycloakStatus == {"SETUP", "DONE", "ERROR"}

\* what the status file may hold: a KeycloakStatus, or any other text
MarkerValues == KeycloakStatus \cup {"export"}

\* what urlopen(health_live_url) meets: a response (status 200 or another
\* status that is not an error, here 204), an HTTPError (an error status; a
\* subclass of URLError), a URLError (the connection cannot be opened), or an
\* exception of http.client that is not a URLError (the peer closes the
\* connection before it answers)
HealthOutcomes == {"200", "204", "HTTPError", "URLError", "RemoteDisconnected"}

IsResponse(outcome) == outcome \in {"200", "204"}

IsURLError(outcome) == outcome \in {"HTTPError", "URLError"}

\* ProbeKeycloak._probe on a status file that holds `text`
ProbeKeycloak_probe(text) == IF text # "SETUP" THEN "True" ELSE "False"

\* ProbeMinio._probe when the GET meets `outcome`: the status of the response
\* is compared with 200, a URLError is caught, anything else leaves the probe
ProbeMinio_probe(outcome) ==
    IF IsResponse(outcome)
    THEN IF outcome = "200" THEN "True" ELSE "False"
    ELSE IF IsURLError(outcome) THEN "False" ELSE "raise"

\* the probes the builder gives ContainersReadiness for a JOB_SUBTASKS list
ProbesBuilt(list) ==
    (IF Contains(list, "all") \/ Contains(list, "s3") THEN <<"ProbeMinio">> ELSE <<>>)
    \o (IF Contains(list, "all") \/ Contains(list, "keycloak") THEN <<"ProbeKeycloak">> ELSE <<>>)

ProbeLists == {ProbesBuilt(list) : list \in JobSubtasksLists}

\* what probe `name` returns, or that it raises, on the containers as they are
Probe(name) == IF name = "ProbeKeycloak" THEN ProbeKeycloak_probe(marker) ELSE ProbeMinio_probe(health)

\* a ContainersReadiness as constructed, wait() not called yet
ReadinessBuilt(timeout, seconds, list) ==
    /\ wait_timeout = timeout
    /\ interval = seconds
    /\ probes = list
    /\ now = 0
    /\ give_up_at = Unset
    /\ wait_pc = "call"
    /\ probe_index = 1
    /\ sleep_left = 0
    /\ probe_time = 0
    /\ wait_trace = <<>>

\* every probe of the list would return True on the containers as they are
AllReady(list, text, outcome) ==
    \A i \in DOMAIN list :
        IF list[i] = "ProbeKeycloak" THEN ProbeKeycloak_probe(text) = "True"
                                     ELSE ProbeMinio_probe(outcome) = "True"

\* the two containers while they start
ContainersStarting ==
    /\ marker = "SETUP"
    /\ health = "URLError"
    /\ ready_since = Unset

(* -------------------------- mc commands: data -------------------------- *)

ALIAS_LOCAL == "local"

ALIAS_CLUSTER == "cluster"

\* f"{alias}/{bucket}" for the one bucket of the model
LocalBucket == "local/bucket"

ClusterBucket == "cluster/bucket"

\* the "status" of a record of mc --json: the two the runner knows and one it does not
Statuses == {"success", "error", "running"}

\* object counts and sizes a du record may report
BucketObjects == {9, 10}

BucketSizes == {500, 501}

\* (objects, size) of a du record; of an error record, its "error" member
Docs == BucketObjects \X BucketSizes

\* bucket_objects = 0, bucket_size = 0: _du_bucket before any record; also
\* the content of the records of the commands whose content is not read
NoDu == <<0, 0>>

\* a statement of an operation: a call of `op` with the arguments `arg`;
\* `to` is the on_success of a _run_command, and for a _du_bucket the
\* locals of _mirror_buckets the returned tuple is bound to
St(op, arg, to) == [op |-> op, arg |-> arg, to |-> to]

McExc(kind, expected, actual) == [kind |-> kind, expected |-> expected, actual |-> actual]

NoMcExc == McExc("none", NoDu, NoDu)

\* the public operations; restore_bucket with its remove_existing_bucket
Operation(name, remove) == [name |-> name, remove_existing_bucket |-> remove]

NoOperation == Operation("none", FALSE)

\* a McCommands as constructed
McBuilt ==
    /\ aliases_setup_done = FALSE
    /\ mc_state = "idle"
    /\ mc_operation = NoOperation
    /\ mc_todo = <<>>
    /\ popen = "closed"
    /\ bucket_du = NoDu
    /\ source_du = NoDu
    /\ target_du = NoDu
    /\ mc_exc = NoMcExc
    /\ operations = 0
    /\ parsed = <<>>
    /\ handed = <<>>
    /\ mc_log = <<>>
    /\ slept = 0
    /\ reads = <<>>
    /\ registrations = <<>>
    /\ needed_at = 0

\* a CqlshCommands as constructed, backup_table not called yet
CqlshBuilt ==
    /\ cq_pc = "idle"
    /\ total = Unset
    /\ count = 0
    /\ out = <<>>
    /\ path_file_exists = FALSE
    /\ path_file_text = <<>>
    /\ cq_exc = ""
    /\ copies = 0

\* no exception has left restore_ddl or restore_table
NoRestoreExc == [msg |-> "", diff |-> <<>>]

\* a CqlshCommands whose restore methods have not been called, over a file
CqlRestoreAtRest(file) ==
    /\ restore_pc = "idle"
    /\ restore_op = ""
    /\ restore_file = file
    /\ restore_code = Unset
    /\ restore_out = <<>>
    /\ restore_err = <<>>
    /\ warnings = 0
    /\ restore_total = Unset
    /\ actual_total = Unset
    /\ restore_exc = NoRestoreExc

CqlRestoreBuilt == CqlRestoreAtRest(<<>>)

\* the job UUID given to the ArchiveCreator and the UUID it draws
JobUuid == "job uuid"

ArchiveUuid == "archive uuid"

\* ArchiveCreator.__init__, and no archive file yet
ArchiverBuilt ==
    /\ archiver_phase = "creator"
    /\ items = <<>>
    /\ metadata = [key \in {"version", "job", "archive"} |->
                       CASE key = "version" -> "v1"
                         [] key = "job" -> JobUuid
                         [] key = "archive" -> ArchiveUuid]
    /\ archive_written = FALSE
    /\ archive = {}
    /\ archive_metadata = {}
    /\ work_dir = {}
    /\ replaced = {}
    /\ last_added = <<>>
    /\ added_keys = {}
    /\ archived_items = <<>>
    /\ archived_metadata = <<>>
    /\ extracted = {}

\* an S3 subtask over `buckets` buckets, in the state given
S3At(position, direction, buckets) ==
    /\ s3_pc = position
    /\ s3_direction = direction
    /\ s3_buckets = buckets
    /\ s3_index = 0
    /\ stop_calls = 0

\* no S3 subtask runs
S3Built == S3At("idle", "", 0)

\* a Report node: _tasks and _status; the ghosts task and parent keep the
\* task it was built with and the node get_sub_report was called on (0 for
\* the root)
Node(tasks, st, task, parent) ==
    [tasks |-> tasks, status |-> st, task |-> task, parent |-> parent]

Line(node) == [tasks |-> node.tasks, status |-> node.status]

\* Reporting.__init__: the root Report, built with status "Starting"
RootReport == Node(<<"backup">>, "Starting", "backup", 0)

ReportsBuilt ==
    /\ reports = <<RootReport>>
    /\ called = [name |-> "__init__", on |-> 1]
    /\ last_line = Line(RootReport)

\* str.strip() of a text of words and newlines
RECURSIVE Strip(_)
Strip(text) ==
    IF text = <<>> THEN <<>>
    ELSE IF Head(text) = "\n" THEN Strip(Tail(text))
    ELSE IF text[Len(text)] = "\n" THEN Strip(SubSeq(text, 1, Len(text) - 1))
    ELSE text

\* what the status file may hold: nothing, or a marker with or without the
\* newline that ends its line
StatusFileTexts ==
    {<<>>} \cup {<<word>> : word \in MarkerValues} \cup {<<word, "\n">> : word \in MarkerValues}

\* a Keycloak subtask whose run has not been called, inside the window
KeycloakRunBuilt ==
    /\ status_file = <<"SETUP", "\n">>
    /\ kc_pc = "idle"
    /\ kc_status = <<>>
    /\ previous_status = <<None>>
    /\ kc_reads = 0
    /\ kc_slept = 0
    /\ kc_exc = ""
    /\ window = "entered"

\* a Cassandra subtask of the restore task whose run has not been called
CassandraBuilt ==
    /\ keyspaces = <<"k1">>
    /\ tables = <<"k1.t1">>
    /\ cass_pc = "idle"
    /\ cass_index = 0
    /\ cass_calls = <<>>

\* archive_name is None
NoArchiveName == <<0>>

\* a setup Task whose run has not been called
SetupNotRun ==
    /\ setup_pc = "idle"
    /\ listed = FALSE
    /\ archives = <<>>
    /\ archive_id = 0
    /\ downloaded = 0
    /\ setup_extracted = FALSE
    /\ setup_status_file = <<>>
    /\ setup_exc = ""

\* a setup Task without an archive name, over a drive without archives
SetupBuilt ==
    /\ drive = <<>>
    /\ archive_name = NoArchiveName
    /\ SetupNotRun

\* a ContainersReadiness of the defaults, over containers that start
ReadinessAtRest ==
    /\ ReadinessBuilt(DefaultWaitTimeout, DefaultInterval, <<>>)
    /\ ContainersStarting

(* ----------------------------- helpers -------------------------------- *)

S(op, arg) == [op |-> op, arg |-> arg]

Ev(op, arg, res) == [op |-> op, arg |-> arg, res |-> res]

NoExc == S("none", "")

NotEntered == [ingress_class_name |-> "-", config_map_value |-> "-"]

(* ------------------------- the two orchestrators ----------------------- *)

\* restore builder: the subtasks list, in the order of the appends
Subtasks(list) ==
    (IF Contains(list, "all") \/ Contains(list, "s3") THEN <<"s3">> ELSE <<>>)
    \o (IF Contains(list, "all") \/ Contains(list, "cassandra") THEN <<"cassandra">> ELSE <<>>)
    \o (IF Contains(list, "all") \/ Contains(list, "keycloak") THEN <<"keycloak">> ELSE <<>>)

\* the builders refuse a list that holds 'all' and is not of length one
InvalidJobSubtasks(list) == Contains(list, "all") /\ Len(list) # 1

\* BackupRun with the upload before finalize
BackupRun_UploadFirst ==
    << S("wait", ""),
       S("metadata", "cql"), S("metadata", "s3"), S("metadata", "kc"),
       S("metadata", "GoogleDrive"),
       S("prepare", "s3"),
       S("__enter__", ""),
       S("run", "cassandra"), S("run", "s3"), S("run", "keycloak"),
       S("__exit__", ""),
       S("add_dir_item", "cql"), S("add_dir_item", "minio"), S("add_dir_item", "kc"),
       S("add_file_item", "backup.log"),
       S("upload", ""),
       S("finalize", "") >>

\* BackupRun with prepare inside the with statement
BackupRun_PrepareInWindow ==
    << S("wait", ""),
       S("metadata", "cql"), S("metadata", "s3"), S("metadata", "kc"),
       S("metadata", "GoogleDrive"),
       S("__enter__", ""),
       S("prepare", "s3"),
       S("run", "cassandra"), S("run", "s3"), S("run", "keycloak"),
       S("__exit__", ""),
       S("add_dir_item", "cql"), S("add_dir_item", "minio"), S("add_dir_item", "kc"),
       S("add_file_item", "backup.log"),
       S("finalize", ""),
       S("upload", "") >>

\* backup Task.run, statement by statement
BackupRun ==
    << S("wait", ""),
       S("metadata", "cql"), S("metadata", "s3"), S("metadata", "kc"),
       S("metadata", "GoogleDrive"),
       S("prepare", "s3"),
       S("__enter__", ""),
       S("run", "cassandra"), S("run", "s3"), S("run", "keycloak"),
       S("__exit__", ""),
       S("add_dir_item", "cql"), S("add_dir_item", "minio"), S("add_dir_item", "kc"),
       S("add_file_item", "backup.log"),
       S("finalize", ""),
       S("upload", "") >>

\* the body of the loop of restore Task.run
RestoreLoop(subtasks) == [i \in 1..Len(subtasks) |-> S("run", subtasks[i])]

\* RestoreRun without the readiness wait
RestoreRun_NoWait(subtasks) ==
    <<S("__enter__", "")>> \o RestoreLoop(subtasks) \o <<S("__exit__", "")>>

\* restore Task.run, statement by statement
RestoreRun(subtasks) ==
    <<S("wait", ""), S("__enter__", "")>> \o RestoreLoop(subtasks) \o <<S("__exit__", "")>>

Program ==
    IF task_name = "backup" THEN BackupRun ELSE RestoreRun(Subtasks(job_subtasks))

EnterIndex == CHOOSE i \in DOMAIN Program : Program[i].op = "__enter__"

ExitIndex == CHOOSE i \in DOMAIN Program : Program[i].op = "__exit__"

\* the statement the job is at
Stmt == Program[pc]

AtStmt(op) == state = "running" /\ pc \in DOMAIN Program /\ Stmt.op = op

\* the builder ignoring MAINTENANCE_ENABLE
UseClusterMaintenance_Always == TRUE

\* get_context_maintenance_builder: which ContextMaintenance is built
UseClusterMaintenance == maintenance_enable

\* the set up writing the maintenance values before it reads the current ones
SetUpSteps_WriteFirst ==
    <<"set_config_map_value", "set_ingress_class_name",
      "get_config_map_value", "get_ingress_class_name", "sleep">>

\* ClusterMaintenance._set_up_maintenance_mode, call by call
SetUpSteps ==
    <<"get_config_map_value", "get_ingress_class_name",
      "set_config_map_value", "set_ingress_class_name", "sleep">>

\* the call that follows call s in _set_up_maintenance_mode
SetUpAfter(s) ==
    LET i == CHOOSE k \in DOMAIN SetUpSteps : SetUpSteps[k] = s
    IN  IF i < Len(SetUpSteps) THEN SetUpSteps[i + 1] ELSE "return"

(* ------------------------ control-flow helpers ------------------------- *)

\* the current statement has returned: go to the next one; run returns
\* when the last statement has
Advance ==
    /\ pc' = pc + 1
    /\ at' = "call"
    /\ state' = IF pc + 1 > Len(Program) THEN "done" ELSE "running"

\* an exception that is caught and dropped: the job goes on with the next statement
Propagate_Caught(e) ==
    /\ exc' = exc
    /\ pc' = pc + 1
    /\ at' = "call"
    /\ state' = IF pc + 1 > Len(Program) THEN "done" ELSE "running"

\* an exception raised while the job is at statement pc: from the body of
\* the with statement it goes to __exit__, from anywhere else it leaves run
Propagate(e) ==
    /\ exc' = e
    /\ IF EnterIndex < pc /\ pc < ExitIndex
       THEN pc' = ExitIndex /\ at' = "call" /\ state' = "running"
       ELSE pc' = pc /\ at' = at /\ state' = "failed"

\* the two outcomes of a call
Returns(op, arg) ==
    /\ trace' = Append(trace, Ev(op, arg, "ok"))
    /\ exc' = exc
    /\ Advance

Raises(op, arg) ==
    /\ trace' = Append(trace, Ev(op, arg, "raise"))
    /\ Propagate(S(op, arg))

\* the current statement is a call that takes one step: it returns or it raises
Call ==
    /\ at = "call"
    /\ \/ Returns(Stmt.op, Stmt.arg)
       \/ Raises(Stmt.op, Stmt.arg)
    /\ UNCHANGED <<service_vars, config_vars, cluster_vars, cache_vars, status, pre_enter>>

\* __exit__ returning a true value: the exception of the body is swallowed
AfterExit_Swallow ==
    /\ pc' = pc + 1
    /\ at' = "call"
    /\ state' = IF pc + 1 > Len(Program) THEN "done" ELSE "running"

\* __exit__ returns None: the exception of the body, if any, goes on
AfterExit ==
    IF exc # NoExc
    THEN pc' = pc /\ at' = "call" /\ state' = "failed"
    ELSE Advance

(* ------------------------------- Init ---------------------------------- *)

Init ==
    /\ task_name \in TaskNames
    /\ job_subtasks \in JobSubtasksLists
    /\ maintenance_enable \in BOOLEAN
    /\ pc = 0
    /\ at = "call"
    /\ state = "running"
    /\ exc = NoExc
    /\ ingress_class_name \in IngressClassNames
    /\ config_map_value \in ConfigMapValues
    /\ original_ingress_class_name = None
    /\ original_config_map_value = None
    /\ status = "ComponentInitialized"
    /\ pre_enter = NotEntered
    /\ trace = <<>>
    /\ ReadinessBuilt(DefaultWaitTimeout, DefaultInterval, ProbesBuilt(job_subtasks))
    /\ ContainersStarting
    /\ McBuilt
    /\ CqlshBuilt
    /\ CqlRestoreBuilt
    /\ ArchiverBuilt
    /\ S3Built
    /\ ReportsBuilt
    /\ KeycloakRunBuilt
    /\ CassandraBuilt
    /\ SetupBuilt

(* ------------------------------ actions -------------------------------- *)

\* entry_point.run up to task.run(): look the task up and build it
EntryPoint ==
    /\ state = "running"
    /\ pc = 0
    /\ IF task_name \notin tasks_builder
       THEN /\ trace' = Append(trace, Ev("entry_point", task_name, "raise"))
            /\ exc' = S("entry_point", task_name)
            /\ state' = "failed"
            /\ UNCHANGED <<pc, at>>
       ELSE IF InvalidJobSubtasks(job_subtasks)
       THEN /\ trace' = Append(trace, Ev("build", task_name, "raise"))
            /\ exc' = S("build", task_name)
            /\ state' = "failed"
            /\ UNCHANGED <<pc, at>>
       ELSE /\ trace' = Append(trace, Ev("build", task_name, "ok"))
            /\ exc' = exc
            /\ Advance
    /\ UNCHANGED <<service_vars, config_vars, cluster_vars, cache_vars, status, pre_enter>>

\* ContainersReadiness.wait(): returns when every probe is true, raises at the deadline
Wait ==
    /\ AtStmt("wait")
    /\ Call

\* archive.add_metadata(key, subtask.metadata())
Metadata ==
    /\ AtStmt("metadata")
    /\ Call

\* task_backup_s3.prepare()
Prepare ==
    /\ AtStmt("prepare")
    /\ Call

\* archive.add_dir_item(*subtask.task_path_dir_and_archive_item())
AddDirItem ==
    /\ AtStmt("add_dir_item")
    /\ Call

\* archive.add_file_item(path_log_file, "backup.log")
AddFileItem ==
    /\ AtStmt("add_file_item")
    /\ Call

\* archive.finalize()
Finalize ==
    /\ AtStmt("finalize")
    /\ Call

\* google_drive.upload(...)
Upload ==
    /\ AtStmt("upload")
    /\ Call

\* ContextMaintenance.__enter__: set the status, then set up
Enter ==
    /\ AtStmt("__enter__")
    /\ at = "call"
    /\ status' = "MaintenanceModeOn"
    /\ pre_enter' = [ingress_class_name |-> ingress_class_name,
                     config_map_value |-> config_map_value]
    /\ trace' = Append(trace, Ev("__enter__", "", "call"))
    /\ at' = IF UseClusterMaintenance THEN SetUpSteps[1] ELSE "noop_set_up"
    /\ UNCHANGED <<service_vars, config_vars, cluster_vars, cache_vars, pc, state, exc>>

\* _set_up_maintenance_mode, 1: read and cache the ConfigMap value
SetUpGetConfigMapValue ==
    /\ AtStmt("__enter__")
    /\ at = "get_config_map_value"
    /\ \/ /\ original_config_map_value' = config_map_value
          /\ trace' = Append(trace, Ev("get_config_map_value", config_map_value, "ok"))
          /\ at' = SetUpAfter("get_config_map_value")
          /\ UNCHANGED <<pc, state, exc>>
       \/ /\ Raises("get_config_map_value", "")
          /\ UNCHANGED original_config_map_value
    /\ UNCHANGED <<service_vars, config_vars, cluster_vars, original_ingress_class_name, status, pre_enter>>

\* _set_up_maintenance_mode, 2: read and cache the ingress className
SetUpGetIngressClassName ==
    /\ AtStmt("__enter__")
    /\ at = "get_ingress_class_name"
    /\ \/ /\ original_ingress_class_name' = ingress_class_name
          /\ trace' = Append(trace, Ev("get_ingress_class_name", ingress_class_name, "ok"))
          /\ at' = SetUpAfter("get_ingress_class_name")
          /\ UNCHANGED <<pc, state, exc>>
       \/ /\ Raises("get_ingress_class_name", "")
          /\ UNCHANGED original_ingress_class_name
    /\ UNCHANGED <<service_vars, config_vars, cluster_vars, original_config_map_value, status, pre_enter>>

\* _set_up_maintenance_mode, 3: write the maintenance ConfigMap value
SetUpSetConfigMapValue ==
    /\ AtStmt("__enter__")
    /\ at = "set_config_map_value"
    /\ \/ /\ config_map_value' = details.config_map_value
          /\ trace' = Append(trace, Ev("set_config_map_value", details.config_map_value, "ok"))
          /\ at' = SetUpAfter("set_config_map_value")
          /\ UNCHANGED <<pc, state, exc>>
       \/ /\ Raises("set_config_map_value", details.config_map_value)
          /\ UNCHANGED config_map_value
    /\ UNCHANGED <<service_vars, config_vars, ingress_class_name, cache_vars, status, pre_enter>>

\* _set_up_maintenance_mode, 4: write the maintenance ingress className
SetUpSetIngressClassName ==
    /\ AtStmt("__enter__")
    /\ at = "set_ingress_class_name"
    /\ \/ /\ ingress_class_name' = details.ingress_class_name
          /\ trace' = Append(trace, Ev("set_ingress_class_name", details.ingress_class_name, "ok"))
          /\ at' = SetUpAfter("set_ingress_class_name")
          /\ UNCHANGED <<pc, state, exc>>
       \/ /\ Raises("set_ingress_class_name", details.ingress_class_name)
          /\ UNCHANGED ingress_class_name
    /\ UNCHANGED <<service_vars, config_vars, config_map_value, cache_vars, status, pre_enter>>

\* _set_up_maintenance_mode, 5: time.sleep(5); then __enter__ returns
SetUpSleep ==
    /\ AtStmt("__enter__")
    /\ at = "sleep"
    /\ trace' = trace \o <<Ev("sleep", ToString(SettleDelay), "ok"), Ev("__enter__", "", "ok")>>
    /\ exc' = exc
    /\ Advance
    /\ UNCHANGED <<service_vars, config_vars, cluster_vars, cache_vars, status, pre_enter>>

\* NoopMaintenanceMode._set_up_maintenance_mode: a notification; then __enter__ returns
NoopSetUp ==
    /\ AtStmt("__enter__")
    /\ at = "noop_set_up"
    /\ trace' = trace \o <<Ev("notify", "set_up", "ok"), Ev("__enter__", "", "ok")>>
    /\ exc' = exc
    /\ Advance
    /\ UNCHANGED <<service_vars, config_vars, cluster_vars, cache_vars, status, pre_enter>>

\* a subtask's run() is called
RunCall ==
    /\ AtStmt("run")
    /\ at = "call"
    /\ trace' = Append(trace, Ev("run", Stmt.arg, "call"))
    /\ at' = "running"
    /\ UNCHANGED <<service_vars, config_vars, cluster_vars, cache_vars, status, pre_enter, pc, state, exc>>

\* a subtask's run() returns or raises
RunEnd ==
    /\ AtStmt("run")
    /\ at = "running"
    /\ \/ Returns("run", Stmt.arg)
       \/ Raises("run", Stmt.arg)
    /\ UNCHANGED <<service_vars, config_vars, cluster_vars, cache_vars, status, pre_enter>>

\* ContextMaintenance.__exit__: set the status, then tear down
Exit ==
    /\ AtStmt("__exit__")
    /\ at = "call"
    /\ status' = "MaintenanceModeOFF"
    /\ trace' = Append(trace, Ev("__exit__", "", "call"))
    /\ at' = IF UseClusterMaintenance THEN "set_config_map_value" ELSE "noop_tear_down"
    /\ UNCHANGED <<service_vars, config_vars, cluster_vars, cache_vars, pre_enter, pc, state, exc>>

\* the tear down writing the maintenance value again
TearDownConfigMapValue_Maintenance == details.config_map_value

\* the value _tear_down_maintenance_mode writes to the ConfigMap entry
TearDownConfigMapValue == original_config_map_value

\* the value _tear_down_maintenance_mode writes to the ingress className
TearDownIngressClassName == original_ingress_class_name

\* _tear_down_maintenance_mode, 1: write back the cached ConfigMap value
TearDownSetConfigMapValue ==
    /\ AtStmt("__exit__")
    /\ at = "set_config_map_value"
    /\ \/ /\ config_map_value' = TearDownConfigMapValue
          /\ trace' = Append(trace, Ev("set_config_map_value", TearDownConfigMapValue, "ok"))
          /\ at' = "set_ingress_class_name"
          /\ UNCHANGED <<pc, state, exc>>
       \/ /\ trace' = Append(trace, Ev("set_config_map_value", TearDownConfigMapValue, "raise"))
          /\ Propagate(S("set_config_map_value", TearDownConfigMapValue))
          /\ UNCHANGED config_map_value
    /\ UNCHANGED <<service_vars, config_vars, ingress_class_name, cache_vars, status, pre_enter>>

\* _tear_down_maintenance_mode, 2: write back the cached ingress className;
\* then __exit__ returns None
TearDownSetIngressClassName ==
    /\ AtStmt("__exit__")
    /\ at = "set_ingress_class_name"
    /\ \/ /\ ingress_class_name' = TearDownIngressClassName
          /\ trace' = trace \o <<Ev("set_ingress_class_name", TearDownIngressClassName, "ok"),
                                 Ev("__exit__", "", "ok")>>
          /\ exc' = exc
          /\ AfterExit
       \/ /\ trace' = Append(trace, Ev("set_ingress_class_name", TearDownIngressClassName, "raise"))
          /\ Propagate(S("set_ingress_class_name", TearDownIngressClassName))
          /\ UNCHANGED ingress_class_name
    /\ UNCHANGED <<service_vars, config_vars, config_map_value, cache_vars, status, pre_enter>>

\* NoopMaintenanceMode._tear_down_maintenance_mode: a notification; then __exit__ returns None
NoopTearDown ==
    /\ AtStmt("__exit__")
    /\ at = "noop_tear_down"
    /\ trace' = trace \o <<Ev("notify", "tear_down", "ok"), Ev("__exit__", "", "ok")>>
    /\ exc' = exc
    /\ AfterExit
    /\ UNCHANGED <<service_vars, config_vars, cluster_vars, cache_vars, status, pre_enter>>

Next ==
    \/ EntryPoint
    \/ Wait
    \/ Metadata
    \/ Prepare
    \/ Enter
    \/ SetUpGetConfigMapValue
    \/ SetUpGetIngressClassName
    \/ SetUpSetConfigMapValue
    \/ SetUpSetIngressClassName
    \/ SetUpSleep
    \/ NoopSetUp
    \/ RunCall
    \/ RunEnd
    \/ Exit
    \/ TearDownSetConfigMapValue
    \/ TearDownSetIngressClassName
    \/ NoopTearDown
    \/ AddDirItem
    \/ AddFileItem
    \/ Finalize
    \/ Upload

Spec == Init /\ [][Next]_vars

(* ------------------- vocabulary of the properties ---------------------- *)

Idx == DOMAIN trace

Happened(e) == \E k \in Idx : trace[k] = e

EnterCalled == Happened(Ev("__enter__", "", "call"))

EnterReturned == Happened(Ev("__enter__", "", "ok"))

ExitCalled == Happened(Ev("__exit__", "", "call"))

ExitReturned == Happened(Ev("__exit__", "", "ok"))

Terminal == state \in {"done", "failed"}

\* the two attributes hold the values they had when __enter__ was called
Restored ==
    /\ ingress_class_name = pre_enter.ingress_class_name
    /\ config_map_value = pre_enter.config_map_value

\* the run of a subtask has raised
BodyRaised == \E k \in Idx : trace[k].op = "run" /\ trace[k].res = "raise"

K8sOps == {"get_config_map_value", "get_ingress_class_name",
           "set_config_map_value", "set_ingress_class_name"}

K8sWrites == {"set_config_map_value", "set_ingress_class_name"}

ArchiveOps == {"add_dir_item", "add_file_item", "finalize", "upload"}

\* the statements of a job that are not part of the with statement
OutsideOps == {"wait", "metadata", "prepare"} \cup ArchiveOps

StatementOps == OutsideOps \cup {"__enter__", "run", "__exit__"}

IsCompleted(e) == e.res = "ok" /\ e.op \in StatementOps

\* the statements that have returned, in order
Completed ==
    LET done == SelectSeq(trace, IsCompleted)
    IN  [i \in DOMAIN done |-> S(done[i].op, done[i].arg)]

IsRun(e) == e.op = "run"

\* the calls and the outcomes of the subtasks' runs, in order
RunEvents == SelectSeq(trace, IsRun)

\* the values of the cluster differ from the maintenance values on both attributes
Distinguishable ==
    /\ pre_enter # NotEntered
    /\ pre_enter.ingress_class_name # details.ingress_class_name
    /\ pre_enter.config_map_value # details.config_map_value

(* ------------------------------- C1 ------------------------------------ *)

\* C1: once __enter__ has returned, after __exit__ has returned the ingress
\* className and the ConfigMap value both equal the values they had when
\* __enter__ was called, whether the body returned or raised.
C1_RestoredAfterExit ==
    (EnterReturned /\ ExitReturned) => Restored

\* the real window has been entered and left around a body that raised, and
\* the maintenance values differ from the original ones
C1_Witness ==
    /\ maintenance_enable
    /\ Distinguishable
    /\ BodyRaised
    /\ ExitReturned
    /\ Happened(Ev("set_ingress_class_name", details.ingress_class_name, "ok"))

(* ------------------------------- C2 ------------------------------------ *)

\* a maintenance value has been written by the set up
MaintenanceWritten ==
    \E k \in Idx :
        /\ trace[k].op \in K8sWrites
        /\ trace[k].res = "ok"
        /\ \A j \in 1..k : trace[j] # Ev("__exit__", "", "call")

\* C2: in every terminal state of a job in which a maintenance value has been
\* written to at least one of the two attributes, both attributes hold their
\* pre-window values, also when a read or a write of the control plane fails
\* part-way through enter or part-way through exit.
C2_RestoredOnEveryExitPath ==
    (Terminal /\ MaintenanceWritten) => Restored

(* ------------------------------- C3 ------------------------------------ *)

\* C3: in a backup job, once a subtask's run has raised inside the window,
\* __exit__ is called before the job ends, no archive item is added, finalize
\* and upload are never called, the job does not end in success, and when
\* __exit__ returns the routing state is restored and the job fails with the
\* error of the subtask.
C3_BodyFailureInBackup ==
    (task_name = "backup" /\ BodyRaised) =>
        /\ state # "done"
        /\ Terminal => ExitCalled
        /\ \A k \in Idx : trace[k].op \notin ArchiveOps
        /\ ExitReturned =>
              /\ state = "failed"
              /\ exc.op = "run"
              /\ Happened(Ev("run", exc.arg, "raise"))
              /\ Restored

\* a backup whose second subtask raised in the real window has ended
C3_Witness ==
    /\ task_name = "backup"
    /\ maintenance_enable
    /\ Distinguishable
    /\ Happened(Ev("run", "s3", "raise"))
    /\ ExitReturned
    /\ state = "failed"

(* ------------------------------- C4 ------------------------------------ *)

\* the phases of a backup, as the specification orders them
ExpectedBackupPhases ==
    << S("wait", ""),
       S("metadata", "cql"), S("metadata", "s3"), S("metadata", "kc"),
       S("metadata", "GoogleDrive"),
       S("prepare", "s3"),
       S("__enter__", ""),
       S("run", "cassandra"), S("run", "s3"), S("run", "keycloak"),
       S("__exit__", ""),
       S("add_dir_item", "cql"), S("add_dir_item", "minio"), S("add_dir_item", "kc"),
       S("add_file_item", "backup.log"),
       S("finalize", ""),
       S("upload", "") >>

\* C4: a successful backup has executed readiness wait, the metadata
\* collection of every subtask, prepare, maintenance enter, the subtasks'
\* runs, maintenance exit, the additions to the archive, finalize and upload,
\* once each and in this order, and every phase that is called was called
\* right after the previous one returned.
C4_BackupPhaseOrder ==
    (task_name = "backup" /\ state = "done") =>
        /\ Completed = ExpectedBackupPhases
        /\ \A k \in Idx :
              trace[k].res = "call" =>
                  /\ k > 1
                  /\ trace[k - 1].res = "ok"
                  /\ trace[k - 1].op \in StatementOps

\* a backup has succeeded
C4_Witness ==
    /\ task_name = "backup"
    /\ state = "done"
    /\ Happened(Ev("upload", "", "ok"))

(* ------------------------------- C5 ------------------------------------ *)

\* the window is in Maintenance: entered, and __exit__ not yet called
InMaintenance == EnterReturned /\ ~ExitCalled

\* the cluster is as it was before the window, and the window's status is not on
Normal ==
    /\ status # "MaintenanceModeOn"
    /\ ~InMaintenance
    /\ pre_enter # NotEntered => Restored

\* C5: in every state of a backup job, the window is in Maintenance only
\* while the job is inside the with statement, where a subtask's run is
\* pending or executing (or the last one has just ended); readiness wait,
\* every metadata call, prepare, the additions to the archive, finalize and
\* upload all execute while the window is Normal.
C5_WindowWrapsOnlyRuns ==
    task_name = "backup" =>
        /\ InMaintenance =>
              /\ state = "running"
              /\ Stmt.op = "run" \/ (pc = ExitIndex /\ at = "call")
        /\ (state = "running" /\ pc \in DOMAIN Program /\ Stmt.op \in OutsideOps) => Normal
        /\ \A k \in Idx :
              trace[k].op \in OutsideOps =>
                  \/ \A j \in 1..k : trace[j].op # "__enter__"
                  \/ \E j \in 1..k : trace[j] = Ev("__exit__", "", "ok")

\* a backup is about to add an item to the archive after the real window
C5_Witness ==
    /\ task_name = "backup"
    /\ maintenance_enable
    /\ Distinguishable
    /\ state = "running"
    /\ pc \in DOMAIN Program
    /\ Stmt.op = "add_dir_item"

(* ------------------------------- C6 ------------------------------------ *)

\* C6: a restore job executes readiness wait, maintenance enter, the run of
\* every configured subtask, maintenance exit, and nothing else: no run is
\* called before readiness succeeded and the window was entered, and no
\* metadata, prepare, archive or upload step is ever performed.
C6_RestorePhases ==
    task_name = "restore" =>
        /\ \A k \in Idx : trace[k].op \notin (OutsideOps \ {"wait"})
        /\ \A k \in Idx :
              (trace[k].op = "run" /\ trace[k].res = "call") =>
                  \E i, j \in 1..k :
                      /\ i < j
                      /\ trace[i] = Ev("wait", "", "ok")
                      /\ trace[j] = Ev("__enter__", "", "ok")
        /\ state = "done" =>
              Completed = <<S("wait", ""), S("__enter__", "")>>
                          \o [i \in 1..Len(Subtasks(job_subtasks)) |->
                                  S("run", Subtasks(job_subtasks)[i])]
                          \o <<S("__exit__", "")>>

\* a restore of two subtasks has succeeded
C6_Witness ==
    /\ task_name = "restore"
    /\ state = "done"
    /\ Len(RunEvents) = 4

(* ------------------------------- C7 ------------------------------------ *)

\* the runs are those of the subtasks of list, in the order of the list: one
\* at a time, each called after the previous one returned, none after a raise
RunsFollow(list) ==
    /\ Len(RunEvents) <= 2 * Len(list)
    /\ \A i \in DOMAIN RunEvents :
          /\ RunEvents[i].arg = list[(i + 1) \div 2]
          /\ (i % 2 = 1) => RunEvents[i].res = "call"
          /\ (i % 2 = 0) => RunEvents[i].res \in {"ok", "raise"}
          /\ RunEvents[i].res = "raise" => i = Len(RunEvents)

\* C7: in a backup and in a restore, the subtasks run one at a time in the
\* declaration order of the configured subtasks (the list the builder makes
\* of JOB_SUBTASKS): a run starts only after the previous one returned
\* normally, and once a run raises no later subtask is started.
C7_DeclarationOrder ==
    task_name \in tasks_builder => RunsFollow(Subtasks(job_subtasks))

(* ------------------------------- C8 ------------------------------------ *)

\* the calls of __exit__ and of the tear down
ExitOps == {"__exit__", "notify"} \cup K8sWrites

\* C8: nothing is caught: once a call has raised the job never ends in
\* success and no later phase is executed, but for the maintenance exit when
\* the call is a subtask's run (the window was entered); a failure anywhere
\* else, also in enter or in exit, ends the job at once.
C8_NothingCaught ==
    \A k \in Idx :
        trace[k].res = "raise" =>
            /\ state # "done"
            /\ \A j \in Idx : j > k => trace[j].op \in ExitOps
            /\ trace[k].op # "run" => (k = Len(trace) /\ state = "failed")
            /\ trace[k].op = "run" =>
                  /\ \E j \in 1..k : trace[j] = Ev("__enter__", "", "ok")
                  /\ state = "failed" \/ (state = "running" /\ pc = ExitIndex)
                  /\ Terminal => ExitCalled

\* the upload of a backup has raised and the job has failed
C8_Witness ==
    /\ state = "failed"
    /\ exc = S("upload", "")
    /\ Happened(Ev("finalize", "", "ok"))

(* ------------------------------- C9 ------------------------------------ *)

\* C9: entering the real window reads and caches both current values before
\* it writes either maintenance value, then writes both maintenance values,
\* then sleeps the settle delay, and only then is the first run called.
C9_EnterOrder ==
    maintenance_enable =>
        /\ \A k \in Idx :
              (trace[k].op \in K8sWrites) =>
                  /\ \E i \in 1..k : trace[i] = Ev("get_config_map_value", pre_enter.config_map_value, "ok")
                  /\ \E i \in 1..k : trace[i] = Ev("get_ingress_class_name", pre_enter.ingress_class_name, "ok")
                  /\ original_config_map_value = pre_enter.config_map_value
                  /\ original_ingress_class_name = pre_enter.ingress_class_name
        /\ \A k \in Idx :
              trace[k].op = "sleep" =>
                  /\ trace[k].arg = ToString(SettleDelay)
                  /\ \E i \in 1..k : trace[i] = Ev("set_config_map_value", details.config_map_value, "ok")
                  /\ \E i \in 1..k : trace[i] = Ev("set_ingress_class_name", details.ingress_class_name, "ok")
        /\ \A k \in Idx :
              trace[k].op = "run" => \E i \in 1..k : trace[i].op = "sleep"

\* the first run is called in the real window
C9_Witness ==
    /\ maintenance_enable
    /\ Distinguishable
    /\ Len(RunEvents) = 1
    /\ ~Restored

(* ------------------------------- C10 ----------------------------------- *)

\* the runs are the run statements of the job, from the first one on
RunsFollowProgram ==
    RunsFollow([i \in 1..(ExitIndex - EnterIndex - 1) |-> Program[EnterIndex + i].arg])

\* C10: with the no-op window, neither attribute is read or written at any
\* point of the job and nothing is cached (enter and exit only notify and set
\* the status), while the body runs as it does in the real window: the runs
\* in order, all of them when none raises, and a failure of the body makes
\* the job fail with that error.
C10_NoopWindow ==
    (~maintenance_enable /\ task_name \in tasks_builder) =>
        /\ \A k \in Idx : trace[k].op \notin (K8sOps \cup {"sleep"})
        /\ original_config_map_value = None
        /\ original_ingress_class_name = None
        /\ pre_enter # NotEntered => Restored
        /\ pc > 0 => RunsFollowProgram
        /\ state = "done" => Len(RunEvents) = 2 * (ExitIndex - EnterIndex - 1)
        /\ (Terminal /\ BodyRaised) =>
              /\ state = "failed"
              /\ exc.op = "run"
              /\ ExitReturned

\* a job with the no-op window has failed on a subtask
C10_Witness ==
    /\ ~maintenance_enable
    /\ state = "failed"
    /\ BodyRaised
    /\ Happened(Ev("notify", "tear_down", "ok"))

(* ===================== containers readiness: wait() ==================== *)
(* ContainersReadiness.wait() as a sequential process of its own, next to  *)
(* the two containers it probes.  Time is counted in seconds: a probe call *)
(* takes 0..MaxProbeTime of them, time.sleep(interval) takes interval of   *)
(* them, one at a time, and the containers may change between any two      *)
(* steps.  The job engine does not move in this specification.             *)

\* the job engine built and not run
JobAtRest ==
    /\ task_name = "backup"
    /\ job_subtasks = <<>>
    /\ maintenance_enable = FALSE
    /\ pc = 0
    /\ at = "call"
    /\ state = "running"
    /\ exc = NoExc
    /\ ingress_class_name = None
    /\ config_map_value = "valX"
    /\ original_ingress_class_name = None
    /\ original_config_map_value = None
    /\ status = "ComponentInitialized"
    /\ pre_enter = NotEntered
    /\ trace = <<>>

ReadinessInit ==
    /\ JobAtRest
    /\ McBuilt
    /\ CqlshBuilt
    /\ CqlRestoreBuilt
    /\ ArchiverBuilt
    /\ S3Built
    /\ ReportsBuilt
    /\ KeycloakRunBuilt
    /\ CassandraBuilt
    /\ SetupBuilt
    /\ \E timeout \in 0..MaxWaitTimeout, seconds \in 1..MaxInterval, list \in ProbeLists :
           ReadinessBuilt(timeout, seconds, list)
    /\ marker \in MarkerValues
    /\ health \in HealthOutcomes
    /\ ready_since = IF AllReady(probes, marker, health) THEN 0 ELSE Unset

\* a deadline that does not count wait_timeout
GiveUpAt_Now == now

\* give_up_at = datetime.now().timestamp() + self.wait_timeout
GiveUpAt == now + wait_timeout

\* datetime.now().timestamp() > give_up_at
GiveUp == now > give_up_at

\* any() in the place of all(): the round ends at the first True
RoundOutcome_Any(result) ==
    IF result = "True" THEN "success"
    ELSE IF probe_index = Len(probes) THEN "failure" ELSE "next"

\* all(probe.probe() for probe in self.probes), after the probe at
\* probe_index has returned `result`: the first False ends the round, the
\* probes after it are not called
RoundOutcome(result) ==
    IF result = "False" THEN "failure"
    ELSE IF probe_index = Len(probes) THEN "success" ELSE "next"

WaitTerminated == wait_pc \in {"returned", "raised", "failed"}

\* success = all(...) is about to be evaluated: all() of no probe is True
StartRound ==
    /\ probe_index' = 1
    /\ wait_pc' = IF probes = <<>> THEN "returned" ELSE "probing"

\* probe `name` is called, reads `seen`, takes `seconds` and ends with `result`
ProbeCall(name, seen, result, seconds) ==
    /\ wait_trace' = Append(wait_trace, Ev(name, seen, result))
    /\ now' = now + seconds
    /\ probe_time' = probe_time + seconds
    /\ IF result = "raise"
       THEN /\ wait_pc' = "failed"
            /\ UNCHANGED <<probe_index, sleep_left>>
       ELSE /\ wait_pc' = CASE RoundOutcome(result) = "success" -> "returned"
                            [] RoundOutcome(result) = "failure" -> "sleeping"
                            [] OTHER -> "probing"
            /\ sleep_left' = IF RoundOutcome(result) = "failure" THEN interval ELSE sleep_left
            /\ probe_index' = IF RoundOutcome(result) = "next" THEN probe_index + 1
                                                               ELSE probe_index

\* since when every probe would return True, once the containers have changed
ReadySince(ready) ==
    IF ready THEN (IF ready_since # Unset THEN ready_since ELSE now) ELSE Unset

\* wait() is called: the deadline is computed, then the first round starts
WaitCall ==
    /\ wait_pc = "call"
    /\ give_up_at' = GiveUpAt
    /\ wait_trace' = Append(wait_trace, Ev("wait", "", "call"))
    /\ StartRound
    /\ UNCHANGED <<outside_readiness, wait_timeout, interval, probes, now, sleep_left, marker,
                   health, probe_time, ready_since>>

\* the round calls ProbeKeycloak.probe()
ProbeKeycloak ==
    /\ wait_pc = "probing"
    /\ probes[probe_index] = "ProbeKeycloak"
    /\ \E seconds \in 0..MaxProbeTime :
           ProbeCall("ProbeKeycloak", marker, ProbeKeycloak_probe(marker), seconds)
    /\ UNCHANGED <<outside_readiness, wait_timeout, interval, probes, give_up_at, marker, health,
                   ready_since>>

\* the round calls ProbeMinio.probe()
ProbeMinio ==
    /\ wait_pc = "probing"
    /\ probes[probe_index] = "ProbeMinio"
    /\ \E seconds \in 0..MaxProbeTime :
           ProbeCall("ProbeMinio", health, ProbeMinio_probe(health), seconds)
    /\ UNCHANGED <<outside_readiness, wait_timeout, interval, probes, give_up_at, marker, health,
                   ready_since>>

\* one second of time.sleep(self.interval)
Sleep ==
    /\ wait_pc = "sleeping"
    /\ sleep_left > 0
    /\ now' = now + 1
    /\ sleep_left' = sleep_left - 1
    /\ IF sleep_left = 1
       THEN /\ wait_pc' = "deadline"
            /\ wait_trace' = <<Ev("sleep", interval, "ok")>>
       ELSE UNCHANGED <<wait_pc, wait_trace>>
    /\ UNCHANGED <<outside_readiness, wait_timeout, interval, probes, give_up_at, probe_index,
                   marker, health, probe_time, ready_since>>

\* the test of the deadline after the sleep: raise, or go for another round
Deadline ==
    /\ wait_pc = "deadline"
    /\ IF GiveUp
       THEN /\ wait_trace' = Append(wait_trace, Ev("deadline", now, "raise"))
            /\ wait_pc' = "raised"
            /\ UNCHANGED probe_index
       ELSE /\ wait_trace' = Append(wait_trace, Ev("deadline", now, "ok"))
            /\ StartRound
    /\ UNCHANGED <<outside_readiness, wait_timeout, interval, probes, now, give_up_at, sleep_left,
                   marker, health, probe_time, ready_since>>

\* the keycloak container writes its status file
StatusFileWritten ==
    /\ ~WaitTerminated
    /\ \E text \in MarkerValues \ {marker} :
           /\ marker' = text
           /\ ready_since' = ReadySince(AllReady(probes, text, health))
    /\ UNCHANGED <<outside_readiness, wait_timeout, interval, probes, now, give_up_at, wait_pc,
                   probe_index, sleep_left, health, probe_time, wait_trace>>

\* the minio container starts or stops answering on its health URL
HealthChanged ==
    /\ ~WaitTerminated
    /\ \E outcome \in HealthOutcomes \ {health} :
           /\ health' = outcome
           /\ ready_since' = ReadySince(AllReady(probes, marker, outcome))
    /\ UNCHANGED <<outside_readiness, wait_timeout, interval, probes, now, give_up_at, wait_pc,
                   probe_index, sleep_left, marker, probe_time, wait_trace>>

\* the steps of wait() itself
WaitStep ==
    \/ WaitCall
    \/ ProbeKeycloak
    \/ ProbeMinio
    \/ Sleep
    \/ Deadline

ReadinessNext ==
    \/ WaitCall
    \/ ProbeKeycloak
    \/ ProbeMinio
    \/ Sleep
    \/ Deadline
    \/ StatusFileWritten
    \/ HealthChanged

ReadinessSpec == ReadinessInit /\ [][ReadinessNext]_vars

\* wait() is sequential code that is never suspended: its next step is
\* taken, whatever the containers do meanwhile
FairReadinessSpec == ReadinessSpec /\ WF_vars(WaitStep)

(* --------------- vocabulary of the readiness properties ---------------- *)

ProbeNames == {"ProbeMinio", "ProbeKeycloak"}

IsProbe(e) == e.op \in ProbeNames

\* the probe calls of the current round, in order
ProbeEvents == SelectSeq(wait_trace, IsProbe)

\* probe `name` is in the list and does not return True on the containers as they are
NeverTrue(name) == Contains(probes, name) /\ Probe(name) # "True"

\* the last Len(probes) steps of wait() were the probes of the list, in the
\* order of the list, each returning True, and a round started with them
LastRoundAllTrue ==
    LET n == Len(wait_trace)
        m == Len(probes)
    IN  /\ n >= m + 1
        /\ \A i \in 1..m : /\ wait_trace[n - m + i].op = probes[i]
                           /\ wait_trace[n - m + i].res = "True"
        /\ wait_trace[n - m].op \in {"wait", "deadline"}

\* the deadline test at position k of the trace comes right after a sleep
\* and, when it does not raise, right before the first probe of a round
BetweenRounds(k) ==
    /\ k > 1
    /\ wait_trace[k - 1].op = "sleep"
    /\ k < Len(wait_trace) => /\ wait_trace[k].res = "ok"
                              /\ wait_trace[k + 1].op = probes[1]

(* ------------------------------- claims -------------------------------- *)

\* C11: when a probe of the list never returns True, wait() ends by raising;
\* the timeout is not raised before start + wait_timeout (start is 0), and
\* when the probes take no time it is raised at most one interval after it.
C11_ReadinessTimeout ==
    /\ \A name \in ProbeNames : <>(~NeverTrue(name) \/ wait_pc \in {"raised", "failed"})
    /\ [](wait_pc = "raised" => now > wait_timeout)
    /\ [](wait_pc = "raised" /\ probe_time = 0 => now <= wait_timeout + interval)

\* wait() has timed out exactly one interval after the deadline, after
\* several rounds of instantaneous probes, the containers not being ready
C11_Witness ==
    /\ wait_pc = "raised"
    /\ probe_time = 0
    /\ wait_timeout >= 2 * interval
    /\ now = wait_timeout + interval
    /\ \E name \in ProbeNames : NeverTrue(name)

\* C12: wait() does not raise the timeout when, from an instant strictly
\* before start + wait_timeout on, every probe of the list would return True.
C12_NoTimeoutWhenReadyBeforeDeadline ==
    wait_pc = "raised" => ~(ready_since # Unset /\ ready_since < wait_timeout)

\* C13: wait() returns only right after a round in which every probe of the
\* list returned True; give_up_at is start + wait_timeout from the first
\* step on, and it is tested only between a sleep and the next round.
C13_ReturnsAfterFullRound ==
    /\ wait_pc = "returned" => LastRoundAllTrue
    /\ wait_pc # "call" => give_up_at = wait_timeout
    /\ \A k \in DOMAIN wait_trace : wait_trace[k].op = "deadline" => BetweenRounds(k)
    /\ wait_pc = "raised" => wait_trace[Len(wait_trace)] = Ev("deadline", now, "raise")

\* wait() has returned from a round of two probes that ended after the
\* deadline, and that was not its first round
C13_Witness ==
    /\ wait_pc = "returned"
    /\ Len(probes) = 2
    /\ now > wait_timeout
    /\ \E k \in DOMAIN wait_trace : wait_trace[k].op = "deadline"

\* C14: the status-file probe returns True for every content other than
\* SETUP and ERROR, and on ERROR it does not return at all: it raises, so
\* that wait() fails at once.
C14_ErrorMarkerFailsAtOnce ==
    \A k \in DOMAIN wait_trace :
        wait_trace[k].op = "ProbeKeycloak" =>
            /\ wait_trace[k].arg \notin {"SETUP", "ERROR"} => wait_trace[k].res = "True"
            /\ wait_trace[k].arg = "ERROR" => wait_trace[k].res = "raise"

\* C15: the health probe returns True when the GET is answered with status
\* 200 and returns False, without raising, whatever else the GET meets.
C15_HealthProbeNeverRaises ==
    \A k \in DOMAIN wait_trace :
        wait_trace[k].op = "ProbeMinio" =>
            wait_trace[k].res = IF wait_trace[k].arg = "200" THEN "True" ELSE "False"

(* ========================= mc commands: McCommands ===================== *)
(* One McCommands and its caller.  The caller asks for public operations   *)
(* one after the other; an operation is the list of the statements it has  *)
(* still to execute, calls being replaced by their bodies when they are    *)
(* made.  A command is run by _run_command, which reads the records of its *)
(* output one by one.  An exception leaves the operation and ends the      *)
(* process: nothing in the callers catches it.                             *)

McInit ==
    /\ JobAtRest
    /\ ReadinessAtRest
    /\ McBuilt
    /\ CqlshBuilt
    /\ CqlRestoreBuilt
    /\ ArchiverBuilt
    /\ S3Built
    /\ ReportsBuilt
    /\ KeycloakRunBuilt
    /\ CassandraBuilt
    /\ SetupBuilt

\* time.sleep(5) between the two readings of the target
RecheckDelay == 5

DuArgs(bucket) == <<"du", "--versions", bucket>>

MirrorArgs(source, target) ==
    <<"mirror", "--overwrite", "--preserve", "--remove", source, target>>

AliasArgs(alias) == <<"alias", "set", alias>>

\* _setup_aliases that forgets to set _aliases_setup_done
SetupAliases_FlagNotSet ==
    <<St("_mc_alias", AliasArgs(ALIAS_LOCAL), None),
      St("_mc_alias", AliasArgs(ALIAS_CLUSTER), None)>>

\* _setup_aliases
SetupAliases ==
    <<St("_mc_alias", AliasArgs(ALIAS_LOCAL), None),
      St("_mc_alias", AliasArgs(ALIAS_CLUSTER), None),
      St("_aliases_setup_done", <<>>, None)>>

\* a second mirroring before the second reading of the target
Recheck_MirrorAgain(source, target) ==
    <<St("sleep", <<>>, None),
      St("_run_command", MirrorArgs(source, target), "on_success_mirror"),
      St("_du_bucket", DuArgs(target), "target"),
      St("verify_again", <<source, target>>, None)>>

\* _mirror_buckets once the first reading of the target differs from the source
Recheck(source, target) ==
    <<St("sleep", <<>>, None),
      St("_du_bucket", DuArgs(target), "target"),
      St("verify_again", <<source, target>>, None)>>

\* _mirror_buckets up to the first comparison
MirrorBuckets(source, target) ==
    <<St("_need_aliases", <<>>, None),
      St("_du_bucket", DuArgs(source), "source"),
      St("_run_command", MirrorArgs(source, target), "on_success_mirror"),
      St("_du_bucket", DuArgs(target), "target"),
      St("verify", <<source, target>>, None)>>

\* a comparison of the object counts alone
Differ_ObjectsOnly(source, target) == source[1] # target[1]

\* source_bucket_objects != target_bucket_objects or source_bucket_size != target_bucket_size
Differ(source, target) == source[1] # target[1] \/ source[2] # target[2]

\* the body of a public operation
Body(operation) ==
    CASE operation.name = "cluster_info" ->
           <<St("_need_aliases", <<>>, None),
             St("_run_command", <<"admin", "info", ALIAS_CLUSTER>>, "on_success")>>
      [] operation.name = "backup_bucket" ->
           <<St("_need_aliases", <<>>, None),
             St("_run_command", <<"mb", "--ignore-existing", LocalBucket>>, None)>>
           \o MirrorBuckets(ClusterBucket, LocalBucket)
      [] operation.name = "restore_bucket" ->
           <<St("_need_aliases", <<>>, None)>>
           \o (IF operation.remove_existing_bucket
               THEN <<St("_run_command", <<"rb", "--force", ClusterBucket>>, None)>>
               ELSE <<>>)
           \o <<St("_run_command", <<"mb", ClusterBucket>>, None)>>
           \o MirrorBuckets(LocalBucket, ClusterBucket)
      [] operation.name = "stop_local" ->
           <<St("_need_aliases", <<>>, None),
             St("_run_command", <<"admin", "service", "stop", ALIAS_LOCAL>>, None)>>
      [] operation.name = "du_cluster_bucket" ->
           <<St("_du_bucket", DuArgs(ClusterBucket), "result")>>

\* the statements that run a command of mc
IsCommand(st) == st.op \in {"_run_command", "_du_bucket", "_mc_alias"}

\* the on_success the statement gives _run_command, None when it gives none
OnSuccess(st) == IF st.op = "_du_bucket" THEN "on_success_du" ELSE st.to

\* the records the command of the statement may print
Records(st) ==
    [status : Statuses, doc : IF st.op = "_du_bucket" THEN Docs ELSE {NoDu}]

\* a runner that takes an error record for a success record
RecordOutcome_ErrorHanded(st) ==
    IF st = "running" THEN "unknown" ELSE "hand"

\* a runner that takes a running record for a success record
RecordOutcome_RunningTolerated(st) ==
    IF st = "error" THEN "fatal" ELSE "hand"

\* what _run_command does with a record of that status
RecordOutcome(st) ==
    IF st = "error" THEN "fatal"
    ELSE IF st = "success" THEN "hand" ELSE "unknown"

\* the public operation `operation` of the McCommands is entered
Called(operation) ==
    /\ mc_state = "idle"
    /\ mc_state' = "running"
    /\ mc_operation' = operation
    /\ mc_todo' = Body(operation)
    /\ operations' = operations + 1
    /\ needed_at' = IF needed_at = 0 /\ operation.name # "du_cluster_bucket"
                    THEN operations + 1 ELSE needed_at
    /\ bucket_du' = NoDu
    /\ source_du' = NoDu
    /\ target_du' = NoDu
    /\ parsed' = <<>>
    /\ handed' = <<>>
    /\ mc_log' = <<>>
    /\ slept' = 0
    /\ reads' = <<>>
    /\ UNCHANGED <<aliases_setup_done, popen, mc_exc, registrations>>

\* the caller calls the public operation `operation`
CallOperation(operation) ==
    /\ operations < MaxOperations
    /\ Called(operation)
    /\ UNCHANGED outside_mc

\* an exception leaves the operation
McRaise(e) ==
    /\ mc_state' = "failed"
    /\ mc_exc' = e

CurrentSt == Head(mc_todo)

AtSt(op) == mc_state = "running" /\ mc_todo # <<>> /\ popen = "closed" /\ CurrentSt.op = op

ClusterInfo ==
    /\ CallOperation(Operation("cluster_info", FALSE))

BackupBucket ==
    /\ CallOperation(Operation("backup_bucket", FALSE))

RestoreBucket ==
    /\ \E remove \in BOOLEAN : CallOperation(Operation("restore_bucket", remove))

StopLocal ==
    /\ CallOperation(Operation("stop_local", FALSE))

DuClusterBucket ==
    /\ CallOperation(Operation("du_cluster_bucket", FALSE))

\* _need_aliases: _setup_aliases unless it has been done
NeedAliases ==
    /\ AtSt("_need_aliases")
    /\ mc_todo' = (IF ~aliases_setup_done THEN SetupAliases ELSE <<>>) \o Tail(mc_todo)
    /\ UNCHANGED <<outside_mc, aliases_setup_done, mc_state, mc_operation, popen, bucket_du,
                   source_du, target_du, mc_exc, operations, parsed, handed, mc_log, slept,
                   reads, registrations, needed_at>>

\* self._aliases_setup_done = True
AliasesSetupDone ==
    /\ AtSt("_aliases_setup_done")
    /\ aliases_setup_done' = TRUE
    /\ mc_todo' = Tail(mc_todo)
    /\ UNCHANGED <<outside_mc, mc_state, mc_operation, popen, bucket_du, source_du,
                   target_du, mc_exc, operations, parsed, handed, mc_log, slept, reads,
                   registrations, needed_at>>

\* _run_command starts the command of the current statement
Popen ==
    /\ mc_state = "running"
    /\ mc_todo # <<>>
    /\ popen = "closed"
    /\ IsCommand(CurrentSt)
    /\ popen' = "open"
    /\ parsed' = <<>>
    /\ handed' = <<>>
    /\ bucket_du' = NoDu
    /\ mc_log' = Append(mc_log, Ev("run", CurrentSt.arg, "call"))
    /\ registrations' = IF CurrentSt.op = "_mc_alias"
                        THEN Append(registrations,
                                    [alias |-> CurrentSt.arg[3], operation |-> operations])
                        ELSE registrations
    /\ UNCHANGED <<outside_mc, aliases_setup_done, mc_state, mc_operation, mc_todo,
                   source_du, target_du, mc_exc, operations, slept, reads, needed_at>>

\* _run_command reads the next record of the output
ReadRecord ==
    /\ mc_state = "running"
    /\ popen = "open"
    /\ Len(parsed) < MaxRecords
    /\ \E rec \in Records(CurrentSt) :
           /\ parsed' = Append(parsed, rec)
           /\ IF RecordOutcome(rec.status) = "hand"
              THEN /\ handed' = IF OnSuccess(CurrentSt) # None
                                THEN Append(handed, rec) ELSE handed
                   /\ bucket_du' = IF CurrentSt.op = "_du_bucket"
                                   THEN <<rec.doc[1], rec.doc[2]>> ELSE bucket_du
                   /\ UNCHANGED <<mc_state, mc_exc, popen, mc_log>>
              ELSE /\ McRaise(McExc(IF RecordOutcome(rec.status) = "fatal"
                                    THEN "failure when running mc command"
                                    ELSE "Unknown status in mc output", NoDu, rec.doc))
                   /\ popen' = "closed"
                   /\ mc_log' = Append(mc_log, Ev("run", CurrentSt.arg, "raise"))
                   /\ UNCHANGED <<handed, bucket_du>>
    /\ UNCHANGED <<outside_mc, aliases_setup_done, mc_operation, mc_todo, source_du,
                   target_du, operations, slept, reads, registrations, needed_at>>

\* the output ends: _run_command returns, and _du_bucket returns its tuple
EndOfOutput ==
    /\ mc_state = "running"
    /\ popen = "open"
    /\ popen' = "closed"
    /\ mc_log' = Append(mc_log, Ev("run", CurrentSt.arg, "ok"))
    /\ mc_todo' = Tail(mc_todo)
    /\ source_du' = IF CurrentSt.op = "_du_bucket" /\ CurrentSt.to = "source"
                    THEN bucket_du ELSE source_du
    /\ target_du' = IF CurrentSt.op = "_du_bucket" /\ CurrentSt.to = "target"
                    THEN bucket_du ELSE target_du
    /\ reads' = IF CurrentSt.op = "_du_bucket" /\ CurrentSt.to \in {"source", "target"}
                THEN Append(reads, [of |-> CurrentSt.to, du |-> bucket_du]) ELSE reads
    /\ UNCHANGED <<outside_mc, aliases_setup_done, mc_state, mc_operation, bucket_du,
                   mc_exc, operations, parsed, handed, slept, registrations, needed_at>>

\* the first comparison of _mirror_buckets
Verify ==
    /\ AtSt("verify")
    /\ mc_todo' = (IF Differ(source_du, target_du)
                   THEN Recheck(CurrentSt.arg[1], CurrentSt.arg[2]) ELSE <<>>)
                  \o Tail(mc_todo)
    /\ UNCHANGED <<outside_mc, aliases_setup_done, mc_state, mc_operation, popen, bucket_du,
                   source_du, target_du, mc_exc, operations, parsed, handed, mc_log, slept,
                   reads, registrations, needed_at>>

\* time.sleep(5)
RecheckSleep ==
    /\ AtSt("sleep")
    /\ slept' = slept + RecheckDelay
    /\ mc_log' = Append(mc_log, Ev("sleep", <<>>, "ok"))
    /\ mc_todo' = Tail(mc_todo)
    /\ UNCHANGED <<outside_mc, aliases_setup_done, mc_state, mc_operation, popen, bucket_du,
                   source_du, target_du, mc_exc, operations, parsed, handed, reads,
                   registrations, needed_at>>

\* the second comparison: fatal when the two still differ
VerifyAgain ==
    /\ AtSt("verify_again")
    /\ IF Differ(source_du, target_du)
       THEN /\ McRaise(McExc("Mirror failed", source_du, target_du))
            /\ UNCHANGED mc_todo
       ELSE /\ mc_todo' = Tail(mc_todo)
            /\ UNCHANGED <<mc_state, mc_exc>>
    /\ UNCHANGED <<outside_mc, aliases_setup_done, mc_operation, popen, bucket_du, source_du,
                   target_du, operations, parsed, handed, mc_log, slept, reads,
                   registrations, needed_at>>

\* the operation has no statement left: it returns to the caller
OperationReturns ==
    /\ mc_state = "running"
    /\ mc_todo = <<>>
    /\ mc_state' = "idle"
    /\ UNCHANGED <<outside_mc, aliases_setup_done, mc_operation, mc_todo, popen, bucket_du,
                   source_du, target_du, mc_exc, operations, parsed, handed, mc_log, slept,
                   reads, registrations, needed_at>>

McNext ==
    \/ ClusterInfo
    \/ BackupBucket
    \/ RestoreBucket
    \/ StopLocal
    \/ DuClusterBucket
    \/ NeedAliases
    \/ AliasesSetupDone
    \/ Popen
    \/ ReadRecord
    \/ EndOfOutput
    \/ Verify
    \/ RecheckSleep
    \/ VerifyAgain
    \/ OperationReturns

McSpec == McInit /\ [][McNext]_vars

(* ----------------- vocabulary of the McCommands properties ------------- *)

\* the operation called last mirrors a bucket
IsMirrorOperation == mc_operation.name \in {"backup_bucket", "restore_bucket"}

\* the operation called last has returned to the caller
McReturned == mc_state = "idle" /\ operations > 0

MirrorSource == IF mc_operation.name = "backup_bucket" THEN ClusterBucket ELSE LocalBucket

MirrorTarget == IF mc_operation.name = "backup_bucket" THEN LocalBucket ELSE ClusterBucket

IsSourceRead(r) == r.of = "source"

IsTargetRead(r) == r.of = "target"

\* the disk usages the mirror has been returned, for the source and for the target
SourceReads == SelectSeq(reads, IsSourceRead)

TargetReads == SelectSeq(reads, IsTargetRead)

\* a reading of the target gave the pair of the source
TargetMatches ==
    /\ SourceReads # <<>>
    /\ \E k \in DOMAIN TargetReads : TargetReads[k].du = SourceReads[1].du

\* positions in the log of the operation
Calls(args) == {k \in DOMAIN mc_log : mc_log[k] = Ev("run", args, "call")}

Returned(args) == {k \in DOMAIN mc_log : mc_log[k] = Ev("run", args, "ok")}

Sleeps == {k \in DOMAIN mc_log : mc_log[k].op = "sleep"}

\* every position of A is before every position of B
Before(A, B) == \A a \in A, b \in B : a < b

\* the mirror of the operation called last has ended: returned, or given up
MirrorEnded == McReturned \/ mc_exc.kind = "Mirror failed"

\* the command started last was given an on_success by its caller
LastCommandHasOnSuccess ==
    \E k \in DOMAIN mc_log :
        /\ mc_log[k].op = "run" /\ mc_log[k].res = "call"
        /\ \A j \in DOMAIN mc_log : (j > k /\ mc_log[j].op = "run") => mc_log[j].res # "call"
        /\ \/ mc_log[k].arg[1] \in {"du", "mirror"}
           \/ mc_log[k].arg[1] = "admin" /\ mc_log[k].arg[2] = "info"

IsSuccess(rec) == rec.status = "success"

RegistrationsOf(alias) == {k \in DOMAIN registrations : registrations[k].alias = alias}

(* ------------------------------- claims -------------------------------- *)

\* C16: a mirror returns only when a reading of the target (the first, or the
\* one re-reading) gave the (objects, size) pair read from the source, and
\* it does not fail once one has; when both readings differ from the source
\* it fails, and the error carries the source pair and the last target pair.
C16_MirrorDriftTolerance ==
    IsMirrorOperation =>
        /\ Len(TargetReads) <= 2
        /\ McReturned => Len(SourceReads) = 1 /\ TargetMatches
        /\ TargetMatches => mc_state # "failed"
        /\ (Len(TargetReads) = 2 /\ ~TargetMatches) =>
               /\ mc_state # "idle"
               /\ mc_state = "failed" =>
                      mc_exc = McExc("Mirror failed", SourceReads[1].du, TargetReads[2].du)
        /\ mc_exc.kind = "Mirror failed" => Len(TargetReads) = 2 /\ ~TargetMatches

\* the mirror has returned after the target was read (9, 500), then (10, 500),
\* the source being (10, 500)
C16_Witness ==
    /\ IsMirrorOperation
    /\ McReturned
    /\ SourceReads = <<[of |-> "source", du |-> <<10, 500>>]>>
    /\ TargetReads = <<[of |-> "target", du |-> <<9, 500>>],
                       [of |-> "target", du |-> <<10, 500>>]>>

\* C17: in one mirror the disk usage of the source is asked for once and has
\* been returned before the copy starts, the copy is started once, the disk
\* usage of the target is asked for after the copy, once when the first
\* reading equals the source and twice otherwise, and the only sleep, of 5
\* seconds, is between the two readings.
C17_OneRetryOfVerification ==
    IsMirrorOperation =>
        LET du_source == Calls(DuArgs(MirrorSource))
            copy == Calls(MirrorArgs(MirrorSource, MirrorTarget))
            du_target == Calls(DuArgs(MirrorTarget))
        IN  /\ Cardinality(du_source) <= 1
            /\ Cardinality(copy) <= 1
            /\ Cardinality(du_target) <= 2
            /\ Before(Returned(DuArgs(MirrorSource)), copy)
            /\ copy # {} => Returned(DuArgs(MirrorSource)) # {}
            /\ Before(copy, du_target)
            /\ du_target # {} => copy # {}
            /\ slept = 5 * Cardinality(Sleeps)
            /\ Cardinality(Sleeps) <= 1
            /\ Sleeps # {} => Len(TargetReads) >= 1 /\ TargetReads[1].du # SourceReads[1].du
            /\ Cardinality(du_target) = 2 => Cardinality(Sleeps) = 1
            /\ \A s \in Sleeps :
                   /\ \E b \in Returned(DuArgs(MirrorTarget)) : b < s
                   /\ Cardinality({c \in du_target : c < s}) = 1
            /\ MirrorEnded =>
                   /\ Cardinality(du_source) = 1
                   /\ Cardinality(copy) = 1
                   /\ Cardinality(du_target) =
                          IF TargetReads[1].du = SourceReads[1].du THEN 1 ELSE 2

\* a mirror has given up: two readings of the target, none equal to the source
C17_Witness ==
    /\ IsMirrorOperation
    /\ mc_exc.kind = "Mirror failed"
    /\ Len(TargetReads) = 2
    /\ Cardinality(Sleeps) = 1

\* C18: the records of a command are taken in the order of the output; the
\* success records, and only they, are passed to on_success, once each and
\* in that order; no record is read after one that is not a success; and an
\* error record ends the runner with an exception that carries its content.
C18_RecordsInOrder ==
    /\ handed = IF LastCommandHasOnSuccess THEN SelectSeq(parsed, IsSuccess) ELSE <<>>
    /\ \A k \in DOMAIN parsed : k < Len(parsed) => parsed[k].status = "success"
    /\ \A k \in DOMAIN parsed :
           parsed[k].status = "error" =>
               /\ mc_state = "failed"
               /\ mc_exc = McExc("failure when running mc command", NoDu, parsed[k].doc)

\* the runner has failed at an error record that followed a success record
\* it had passed to on_success
C18_Witness ==
    /\ mc_state = "failed"
    /\ Len(parsed) = 2
    /\ parsed[1].status = "success"
    /\ parsed[2].status = "error"
    /\ handed = <<parsed[1]>>

\* C19: each of the aliases local and cluster is registered at most once by
\* one McCommands, by the first operation that calls _need_aliases, and has
\* been registered once that operation has returned.
C19_AliasesRegisteredOnce ==
    \A alias \in {ALIAS_LOCAL, ALIAS_CLUSTER} :
        /\ Cardinality(RegistrationsOf(alias)) <= 1
        /\ \A k \in RegistrationsOf(alias) : registrations[k].operation = needed_at
        /\ (needed_at # 0 /\ (operations > needed_at \/ mc_state = "idle")) =>
               Cardinality(RegistrationsOf(alias)) = 1

\* two operations that need the aliases have returned, and the second one
\* registered nothing
C19_Witness ==
    /\ operations = 2
    /\ needed_at = 1
    /\ mc_state = "idle"
    /\ mc_operation.name = "stop_local"
    /\ registrations = <<[alias |-> ALIAS_LOCAL, operation |-> 1],
                         [alias |-> ALIAS_CLUSTER, operation |-> 1]>>

(* ==================== cqlsh commands: backup_table ===================== *)
(* One call of CqlshCommands.backup_table.  _count_table runs a command to *)
(* the end; the COPY command is streamed, one line at a time, through      *)
(* on_line.  What cqlsh prints is not bound to what the table holds: the   *)
(* stream is any banner line followed by any number of CSV lines, or       *)
(* nothing at all.                                                         *)

CqlshInit ==
    /\ JobAtRest
    /\ ReadinessAtRest
    /\ McBuilt
    /\ CqlshBuilt
    /\ CqlRestoreBuilt
    /\ ArchiverBuilt
    /\ S3Built
    /\ ReportsBuilt
    /\ KeycloakRunBuilt
    /\ CassandraBuilt
    /\ SetupBuilt

\* the first line cqlsh prints: the answer to CONSISTENCY ALL
Banner == "Consistency level set to ALL."

\* the lines of a dumped table
CsvLines == {"k1,v1", "k2,v2"}

\* how the command of _count_table ends: code 0 and the count on the fifth
\* line of its output, another code, or code 0 and an output without a
\* number on a fifth line
CountOutcomes == {"count", "code", "lines"}

\* the banner counted as a row
RowsCopied_WithBanner == count

\* (count - 1): the lines streamed, less the first one
RowsCopied == count - 1

\* "".join(out.splitlines(keepends=True)[1:])
WithoutFirstLine(lines) == IF lines = <<>> THEN <<>> ELSE Tail(lines)

CqRaise(message) ==
    /\ cq_pc' = "failed"
    /\ cq_exc' = message

\* backup_table is called
BackupTable ==
    /\ cq_pc = "idle"
    /\ cq_pc' = "_count_table"
    /\ UNCHANGED <<outside_cqlsh, total, count, out, path_file_exists, path_file_text,
                   cq_exc, copies>>

\* total = self._count_table(report, table)
CountTable ==
    /\ cq_pc = "_count_table"
    /\ \E outcome \in CountOutcomes :
           CASE outcome = "count" -> /\ total' \in 0..MaxRows
                                     /\ cq_pc' = "copy"
                                     /\ UNCHANGED cq_exc
             [] outcome = "code" ->  /\ CqRaise("Failure")
                                     /\ UNCHANGED total
             [] outcome = "lines" -> /\ CqRaise("IndexError or ValueError")
                                     /\ UNCHANGED total
    /\ UNCHANGED <<outside_cqlsh, count, out, path_file_exists, path_file_text, copies>>

\* _run_command_with_handler starts CONSISTENCY ALL; COPY <table> TO STDOUT;
Copy ==
    /\ cq_pc = "copy"
    /\ cq_pc' = "streaming"
    /\ count' = 0
    /\ out' = <<>>
    /\ copies' = copies + 1
    /\ UNCHANGED <<outside_cqlsh, total, path_file_exists, path_file_text, cq_exc>>

\* on_line(line) for the next line of the stream
OnLine ==
    /\ cq_pc = "streaming"
    /\ count < MaxRows + 2
    /\ \E line \in (IF count = 0 THEN {Banner} ELSE CsvLines) :
           out' = Append(out, line)
    /\ count' = count + 1
    /\ UNCHANGED <<outside_cqlsh, cq_pc, total, path_file_exists, path_file_text, cq_exc,
                   copies>>

\* the stream ends: _run_command_with_handler returns
CopyEnds ==
    /\ cq_pc = "streaming"
    /\ cq_pc' = "check"
    /\ UNCHANGED <<outside_cqlsh, total, count, out, path_file_exists, path_file_text,
                   cq_exc, copies>>

\* if (count - 1) != total: raise RuntimeError("Wrong count of rows ...")
CheckCount ==
    /\ cq_pc = "check"
    /\ IF RowsCopied # total
       THEN CqRaise("Wrong count of rows")
       ELSE cq_pc' = "write" /\ UNCHANGED cq_exc
    /\ UNCHANGED <<outside_cqlsh, total, count, out, path_file_exists, path_file_text,
                   copies>>

\* path_file.write_text(...), and backup_table returns
WriteText ==
    /\ cq_pc = "write"
    /\ path_file_exists' = TRUE
    /\ path_file_text' = WithoutFirstLine(out)
    /\ cq_pc' = "returned"
    /\ UNCHANGED <<outside_cqlsh, total, count, out, cq_exc, copies>>

CqlshNext ==
    \/ BackupTable
    \/ CountTable
    \/ Copy
    \/ OnLine
    \/ CopyEnds
    \/ CheckCount
    \/ WriteText

CqlshSpec == CqlshInit /\ [][CqlshNext]_vars

(* ------------------------------- claims -------------------------------- *)

\* the COPY command has been run and its stream has ended
Streamed == copies > 0 /\ cq_pc \in {"check", "write", "returned", "failed"}

\* C20: once the stream of the COPY has ended, backup_table fails with the
\* row-count error exactly when the number of lines streamed, less one,
\* differs from the count(*) taken before the copy, and goes on to write the
\* file and return when they are equal; the COPY is run at most once.
C20_RowCountInvariant ==
    /\ copies <= 1
    /\ cq_exc = "Wrong count of rows" <=>
           (Streamed /\ cq_pc = "failed" /\ Len(out) - 1 # total)
    /\ (Streamed /\ Len(out) - 1 # total) => cq_pc \in {"check", "failed"}
    /\ (Streamed /\ Len(out) - 1 = total) => cq_pc # "failed"
    /\ cq_pc = "returned" => Len(out) - 1 = total /\ path_file_exists

\* backup_table has failed on a table counted at 2 rows whose dump had one
\* CSV line after the banner
C20_Witness ==
    /\ cq_pc = "failed"
    /\ cq_exc = "Wrong count of rows"
    /\ total = 2
    /\ Len(out) = 2
    /\ copies = 1

\* backup_table has ended after the stream of its COPY ended
CopyJudged == Streamed /\ cq_pc \in {"returned", "failed"}

\* C21 as stated, for a table of any n >= 1 rows in place of 100: a stream of
\* n lines with the banner (n - 1 data lines) makes backup_table succeed, a
\* stream of n - 1 lines with the banner (n - 2 data lines) makes it fail.
C21_OneDataLineShortSucceeds ==
    (CopyJudged /\ total >= 1) =>
        /\ Len(out) = total => cq_pc = "returned"
        /\ Len(out) = total - 1 => cq_pc = "failed"

\* C21 amended: for a table counted at n >= 1 rows, backup_table succeeds on
\* a stream of n data lines (n + 1 lines with the banner), and fails with the
\* row-count error on n - 1 data lines (n lines with the banner) and on
\* n - 2 data lines.
C21_AllDataLinesSucceed ==
    (CopyJudged /\ total >= 1) =>
        /\ Len(out) = total + 1 => cq_pc = "returned" /\ Len(path_file_text) = total
        /\ Len(out) \in {total, total - 1} =>
               cq_pc = "failed" /\ cq_exc = "Wrong count of rows" /\ ~path_file_exists

\* backup_table has returned on a table counted at 2 rows whose dump had the
\* banner and 2 CSV lines
C21_Witness ==
    /\ cq_pc = "returned"
    /\ total = 2
    /\ Len(out) = 3
    /\ Len(path_file_text) = 2

(* ============ cqlsh commands: restore_ddl and restore_table ============ *)
(* One call of restore_ddl or of restore_table on a file.  Texts are kept  *)
(* by the character, so that the line and paragraph splitting is computed  *)
(* as str.splitlines and str.split("\n\n") compute it.  drop_if_exists and *)
(* truncate only change the text of the command and are left out.          *)

NL == "\n"

\* a character is the end of a line or not
Chars == {"a", NL}

Texts(n) == UNION {[1..k -> Chars] : k \in 0..n}

CqlRestoreInit ==
    /\ JobAtRest
    /\ ReadinessAtRest
    /\ McBuilt
    /\ CqlshBuilt
    /\ \E file \in Texts(MaxText) : CqlRestoreAtRest(file)
    /\ ArchiverBuilt
    /\ S3Built
    /\ ReportsBuilt
    /\ KeycloakRunBuilt
    /\ CassandraBuilt
    /\ SetupBuilt

\* the exit codes of cqlsh: success, a failure, and the code of a script with
\* failed statements
ExitCodes == {0, 1, 2}

MSG_INVALID_REQUEST_COL_IDX_TOKEN ==
    "InvalidRequest: Error from server: code=2200 [Invalid query] message=\"Unknown column name detected in CREATE MATERIALIZED VIEW statement: idx_token\""

\* a line of stderr: the benign message behind the position cqlsh prints, the
\* benign message from the first character, or another error
PositionedBenign == "<stdin>:7:InvalidRequest ... idx_token"

BareBenign == "InvalidRequest ... idx_token"

OtherError == "<stdin>:3:SyntaxException: line 1:0 no viable alternative"

ErrLineKinds == {PositionedBenign, BareBenign, OtherError}

ErrLines == UNION {[1..k -> ErrLineKinds] : k \in 0..MaxErrLines}

\* message.find(MSG_INVALID_REQUEST_COL_IDX_TOKEN)
Find(message) ==
    CASE message = PositionedBenign -> 10
      [] message = BareBenign -> 0
      [] OTHER -> -1

\* all(message.find(MSG_INVALID_REQUEST_COL_IDX_TOKEN) > 0 for message in err_lines)
Ignorable(lines) == \A i \in DOMAIN lines : Find(lines[i]) > 0

RECURSIVE DropFirstLine(_)
\* "".join(text.splitlines(keepends=True)[1:])
DropFirstLine(text) ==
    IF text = <<>> THEN <<>>
    ELSE IF Head(text) = NL THEN Tail(text)
    ELSE DropFirstLine(Tail(text))

RECURSIVE SplitFrom(_, _)
\* text.split("\n\n"), current being the characters of the paragraph begun
SplitFrom(text, current) ==
    IF text = <<>> THEN <<current>>
    ELSE IF Len(text) >= 2 /\ text[1] = NL /\ text[2] = NL
         THEN <<current>> \o SplitFrom(SubSeq(text, 3, Len(text)), <<>>)
         ELSE SplitFrom(Tail(text), Append(current, Head(text)))

Paragraphs(text) == SplitFrom(text, <<>>)

\* len(text.splitlines())
NumLines(text) ==
    Cardinality({i \in DOMAIN text : text[i] = NL})
        + (IF text # <<>> /\ text[Len(text)] # NL THEN 1 ELSE 0)

\* the paragraphs of the file that the dump lacks
Diff_MissingFromDump(dump, file) ==
    LET wanted == Paragraphs(DropFirstLine(dump))
        NotDumped(paragraph) == ~Contains(wanted, paragraph)
    IN  SelectSeq(Paragraphs(file), NotDumped)

\* diff = [line for line in "".join(out.splitlines(keepends=True)[1:]).split("\n\n")
\*         if line not in path_file.read_text('utf8').split("\n\n")]
Diff(dump, file) ==
    LET known == Paragraphs(file)
        NotInFile(paragraph) == ~Contains(known, paragraph)
    IN  SelectSeq(Paragraphs(DropFirstLine(dump)), NotInFile)

\* only the exit code of a rejected statement stops restore_table
CopyFailed_OnlyRejected(code) == code = 2

\* if code != 0
CopyFailed(code) == code # 0

RestoreRaise(message, paragraphs) ==
    /\ restore_pc' = "failed"
    /\ restore_exc' = [msg |-> message, diff |-> paragraphs]

\* restore_ddl is called
RestoreDdl ==
    /\ restore_pc = "idle"
    /\ restore_pc' = "replay"
    /\ restore_op' = "restore_ddl"
    /\ UNCHANGED <<outside_cqlrestore, restore_file, restore_code, restore_out, restore_err,
                   warnings, restore_total, actual_total, restore_exc>>

\* the script of the file is run and its exit code judged
Replay ==
    /\ restore_pc = "replay"
    /\ \E code \in ExitCodes, lines \in ErrLines :
           /\ restore_code' = code
           /\ restore_err' = lines
           /\ IF code = 0
              THEN /\ restore_pc' = "describe"
                   /\ UNCHANGED <<warnings, restore_exc>>
              ELSE IF code = 2
              THEN IF Ignorable(lines)
                   THEN /\ warnings' = warnings + 1
                        /\ restore_pc' = "describe"
                        /\ UNCHANGED restore_exc
                   ELSE /\ RestoreRaise("Failure: err", <<>>)
                        /\ UNCHANGED warnings
              ELSE /\ RestoreRaise("Failure: err", <<>>)
                   /\ UNCHANGED warnings
    /\ UNCHANGED <<outside_cqlrestore, restore_op, restore_file, restore_out, restore_total,
                   actual_total>>

\* DESCRIBE <keyspace> is run and its output compared with the file
Describe ==
    /\ restore_pc = "describe"
    /\ \E code \in ExitCodes, dump \in Texts(MaxText + 1) :
           /\ restore_code' = code
           /\ restore_out' = dump
           /\ restore_err' = <<>>
           /\ IF code = 0
              THEN IF Len(Diff(dump, restore_file)) > 0
                   THEN RestoreRaise("not correctly restored", Diff(dump, restore_file))
                   ELSE restore_pc' = "returned" /\ UNCHANGED restore_exc
              ELSE RestoreRaise("Failure out", <<>>)
    /\ UNCHANGED <<outside_cqlrestore, restore_op, restore_file, warnings, restore_total,
                   actual_total>>

\* restore_table is called: the file is read and its lines counted
RestoreTable ==
    /\ restore_pc = "idle"
    /\ restore_pc' = "copy"
    /\ restore_op' = "restore_table"
    /\ restore_total' = NumLines(restore_file)
    /\ UNCHANGED <<outside_cqlrestore, restore_file, restore_code, restore_out, restore_err,
                   warnings, actual_total, restore_exc>>

\* COPY <table> FROM STDIN is run on the data of the file
CopyFrom ==
    /\ restore_pc = "copy"
    /\ \E code \in ExitCodes :
           /\ restore_code' = code
           /\ IF CopyFailed(code)
              THEN RestoreRaise("Failure : err", <<>>)
              ELSE restore_pc' = "count" /\ UNCHANGED restore_exc
    /\ UNCHANGED <<outside_cqlrestore, restore_op, restore_file, restore_out, restore_err,
                   warnings, restore_total, actual_total>>

\* actual_total = self._count_table(report, table), and the comparison
CountRestored ==
    /\ restore_pc = "count"
    /\ \E outcome \in CountOutcomes :
           CASE outcome = "count" ->
                    \E rows \in 0..(MaxText + 1) :
                        /\ actual_total' = rows
                        /\ IF restore_total # rows
                           THEN RestoreRaise("Expected total row", <<>>)
                           ELSE restore_pc' = "returned" /\ UNCHANGED restore_exc
             [] outcome = "code" ->  RestoreRaise("Failure", <<>>) /\ UNCHANGED actual_total
             [] outcome = "lines" -> /\ RestoreRaise("IndexError or ValueError", <<>>)
                                     /\ UNCHANGED actual_total
    /\ UNCHANGED <<outside_cqlrestore, restore_op, restore_file, restore_code, restore_out,
                   restore_err, warnings, restore_total>>

CqlRestoreNext ==
    \/ RestoreDdl
    \/ Replay
    \/ Describe
    \/ RestoreTable
    \/ CopyFrom
    \/ CountRestored

CqlRestoreSpec == CqlRestoreInit /\ [][CqlRestoreNext]_vars

(* ------------------------------- claims -------------------------------- *)

Range(list) == {list[i] : i \in DOMAIN list}

\* the script has been replayed and DESCRIBE has not been run yet
Replayed ==
    /\ restore_op = "restore_ddl"
    /\ restore_pc = "describe" \/ restore_exc.msg = "Failure: err"

\* DESCRIBE has been run and its result judged
Described ==
    /\ restore_op = "restore_ddl"
    /\ restore_pc = "returned" \/ restore_exc.msg \in {"not correctly restored", "Failure out"}

\* the paragraphs of the dump, less its first line, that the file has not
ExtraParagraphs ==
    Range(Paragraphs(DropFirstLine(restore_out))) \ Range(Paragraphs(restore_file))

\* C22: after the replay of the script, exit code 0 goes on to the check of
\* the keyspace; exit code 2 goes on, with a warning, exactly when every line
\* of stderr holds the allow-listed message; any other code is fatal.
C22_ReplayOutcome ==
    Replayed =>
        /\ restore_code = 0 => restore_pc = "describe"
        /\ restore_code = 2 =>
               ((restore_pc = "describe" /\ warnings = 1) <=>
                   \A i \in DOMAIN restore_err :
                       restore_err[i] \in {PositionedBenign, BareBenign})
        /\ restore_code \notin {0, 2} => restore_pc = "failed"

\* C23: once DESCRIBE has been run, restore_ddl has failed whenever the dump,
\* less its first line and split on "\n\n", holds a paragraph the file has
\* not; the error of the comparison lists those paragraphs and no other.
C23_ExtraParagraphsFail ==
    Described =>
        /\ ExtraParagraphs # {} => restore_pc = "failed"
        /\ (restore_code = 0 /\ ExtraParagraphs # {}) =>
               restore_exc.msg = "not correctly restored"
        /\ restore_exc.msg = "not correctly restored" =>
               /\ ExtraParagraphs # {}
               /\ Range(restore_exc.diff) = ExtraParagraphs
        /\ restore_pc = "returned" => restore_code = 0 /\ ExtraParagraphs = {}

\* restore_ddl has failed on a dump of two paragraphs, one of them the file's
\* and the other listed in the error
C23_Witness ==
    /\ restore_exc.msg = "not correctly restored"
    /\ Len(Paragraphs(DropFirstLine(restore_out))) = 2
    /\ Len(restore_exc.diff) = 1
    /\ restore_file # <<>>

\* C24: restore_table returns only after the COPY exited with code 0 and a
\* count taken after it gave the number of lines of the file; a count that
\* differs is fatal, and no count is taken after a failed COPY.
C24_RestoreTableCounts ==
    restore_op = "restore_table" =>
        /\ restore_pc = "returned" =>
               restore_code = 0 /\ actual_total = NumLines(restore_file)
        /\ actual_total # Unset => restore_code = 0
        /\ (actual_total # Unset /\ actual_total # NumLines(restore_file)) =>
               restore_pc = "failed" /\ restore_exc.msg = "Expected total row"
        /\ (restore_code \notin {Unset, 0}) =>
               restore_pc = "failed" /\ restore_exc.msg = "Failure : err"

\* restore_table has returned on a file of two lines
C24_Witness ==
    /\ restore_op = "restore_table"
    /\ restore_pc = "returned"
    /\ restore_file = <<"a", NL, "a">>
    /\ actual_total = 2

(* ============================== archiver =============================== *)
(* An ArchiveCreator under any sequence of its public methods, then an     *)
(* ArchiveExtractor opened on the archive file it wrote.  Member names are *)
(* kept by the character, so that the prefix test of extract_dir_item is   *)
(* computed as str.startswith computes it.                                 *)

ArchiverInit ==
    /\ JobAtRest
    /\ ReadinessAtRest
    /\ McBuilt
    /\ CqlshBuilt
    /\ CqlRestoreBuilt
    /\ ArchiverBuilt
    /\ S3Built
    /\ ReportsBuilt
    /\ KeycloakRunBuilt
    /\ CassandraBuilt
    /\ SetupBuilt

\* ArchiveItem.KEYCLOAK.value
KEYCLOAK == <<"k", "c">>

\* an item name that add_file_item is given, beginning like ArchiveItem.KEYCLOAK
KC2 == <<"k", "c", "2">>

\* ArchiveItem.METADATA.value
METADATA == <<"metadata.json">>

ItemNames == {KEYCLOAK, KC2}

\* the paths handed to the add methods: a directory holding a file and an
\* empty directory, a directory holding nothing, and a regular file
SourcePaths == {"export", "empty", "log"}

Entry(name, kind, data) == [name |-> name, kind |-> kind, data |-> data]

\* what is found at a path, each entry named relative to the path
Tree(path) ==
    CASE path = "export" -> {Entry(<<>>, "dir", ""),
                             Entry(<<"x">>, "file", "bytes of x"),
                             Entry(<<"s">>, "dir", "")}
      [] path = "empty" -> {Entry(<<>>, "dir", "")}
      [] path = "log" -> {Entry(<<>>, "file", "bytes of log")}

\* os.path.join(arcname, name)
Join(arcname, name) == IF name = <<>> THEN arcname ELSE arcname \o <<"/">> \o name

\* archive.add(path, arcname=archive_item): the path and, below a directory,
\* everything in it
TarAdd(path, archive_item) ==
    {Entry(Join(archive_item, e.name), e.kind, e.data) : e \in Tree(path)}

\* str.startswith
StartsWith(name, prefix) ==
    Len(name) >= Len(prefix) /\ SubSeq(name, 1, Len(prefix)) = prefix

\* the prefix test without the separator
IsItemMember_NoSeparator(name, archive_item) == StartsWith(name, archive_item)

\* tarinfo.name.startswith(f"{archive_item}/")
IsItemMember(name, archive_item) == StartsWith(name, archive_item \o <<"/">>)

\* the directories extractall makes for a member that lies below them
ParentsOf(name) ==
    {Entry(SubSeq(name, 1, i - 1), "dir", "") : i \in {j \in DOMAIN name : name[j] = "/"}}

\* archive.extractall(path=self._path_work_dir, members=members) over what the
\* working directory holds
ExtractAll(members, present) ==
    LET made == members \cup
                    {d \in UNION {ParentsOf(m.name) : m \in members} :
                        \A e \in present \cup members : e.name # d.name}
    IN  {e \in present : \A m \in made : m.name # e.name} \cup made

\* json.dump(self._metadata, fp): the pairs of the mapping
JsonDump(mapping) == {<<key, mapping[key]>> : key \in DOMAIN mapping}

\* json.load of the metadata member
JsonLoad(pairs) ==
    [key \in {p[1] : p \in pairs} |-> (CHOOSE p \in pairs : p[1] = key)[2]]

\* dict[key] = value
DictSet(dict, key, value) ==
    [k \in DOMAIN dict \cup {key} |-> IF k = key THEN value ELSE dict[k]]

\* the first path added under a name is kept
add_item_KeepFirst(path, archive_item) ==
    items' = IF archive_item \in DOMAIN items THEN items
             ELSE DictSet(items, archive_item, path)

\* _add_item: self._items[archive_item] = path
add_item(path, archive_item) ==
    items' = DictSet(items, archive_item, path)

\* the ghosts of an add under a name
Added(path, archive_item) ==
    /\ last_added' = DictSet(last_added, archive_item, path)
    /\ replaced' = IF archive_item \in DOMAIN last_added
                   THEN replaced \cup {archive_item} ELSE replaced

\* add_dir_item(path_dir, archive_item), archive_item an ArchiveItem
add_dir_item ==
    /\ archiver_phase = "creator"
    /\ \E path \in SourcePaths :
           /\ add_item(path, KEYCLOAK)
           /\ Added(path, KEYCLOAK)
    /\ UNCHANGED <<outside_archiver, archiver_phase, metadata, archive_written, archive,
                   archive_metadata, work_dir, added_keys, archived_items,
                   archived_metadata, extracted>>

\* add_file_item(path_file, archive_item), archive_item any name
add_file_item ==
    /\ archiver_phase = "creator"
    /\ \E path \in SourcePaths, archive_item \in ItemNames :
           /\ add_item(path, archive_item)
           /\ Added(path, archive_item)
    /\ UNCHANGED <<outside_archiver, archiver_phase, metadata, archive_written, archive,
                   archive_metadata, work_dir, added_keys, archived_items,
                   archived_metadata, extracted>>

\* add_metadata(key, metadata)
add_metadata ==
    /\ archiver_phase = "creator"
    /\ \E key \in {"cql", "version"} :
           /\ metadata' = DictSet(metadata, key, "information")
           /\ added_keys' = added_keys \cup {key}
    /\ UNCHANGED <<outside_archiver, archiver_phase, items, archive_written, archive,
                   archive_metadata, work_dir, replaced, last_added, archived_items,
                   archived_metadata, extracted>>

\* finalize: the metadata file is written, then the archive file is written
\* anew from the items and the metadata file
finalize ==
    /\ archiver_phase = "creator"
    /\ archive_metadata' = JsonDump(metadata)
    /\ archive' = UNION {TarAdd(items[archive_item], archive_item) :
                             archive_item \in DOMAIN items}
                      \cup {Entry(METADATA, "file", "metadata file")}
    /\ archive_written' = TRUE
    /\ archived_items' = items
    /\ archived_metadata' = metadata
    /\ UNCHANGED <<outside_archiver, archiver_phase, items, metadata, work_dir, replaced,
                   last_added, added_keys, extracted>>

\* Archiver.existing_archive(path_archive) on the archive file written
existing_archive ==
    /\ archiver_phase = "creator"
    /\ archive_written
    /\ archiver_phase' = "extractor"
    /\ UNCHANGED <<outside_archiver, items, metadata, archive_written, archive,
                   archive_metadata, work_dir, replaced, last_added, added_keys,
                   archived_items, archived_metadata, extracted>>

\* extract_dir_item(archive_item)
extract_dir_item ==
    /\ archiver_phase = "extractor"
    /\ \E archive_item \in ItemNames \cup {METADATA} :
           /\ work_dir' = ExtractAll({m \in archive : IsItemMember(m.name, archive_item)},
                                     work_dir)
           /\ extracted' = extracted \cup {archive_item}
    /\ UNCHANGED <<outside_archiver, archiver_phase, items, metadata, archive_written,
                   archive, archive_metadata, replaced, last_added, added_keys,
                   archived_items, archived_metadata>>

ArchiverNext ==
    \/ add_dir_item
    \/ add_file_item
    \/ add_metadata
    \/ finalize
    \/ existing_archive
    \/ extract_dir_item

ArchiverSpec == ArchiverInit /\ [][ArchiverNext]_vars

(* ------------------------------- claims -------------------------------- *)

\* name lies at or below the entry called top
AtOrBelow(name, top) ==
    \/ name = top
    \/ /\ Len(name) > Len(top)
       /\ SubSeq(name, 1, Len(top)) = top
       /\ name[Len(top) + 1] = "/"

\* the members of the archive file that lie directly at its top
TopLevel == {m \in archive : \A i \in DOMAIN m.name : m.name[i] # "/"}

\* C25: once the archive written by finalize is opened, each item that has
\* been extracted shows under the working directory the subtree archived
\* under its name, and the metadata member loads as the mapping accumulated.
C25_ArchiveRoundTrip ==
    archiver_phase = "extractor" =>
        /\ \A archive_item \in DOMAIN archived_items \cap extracted :
               {e \in work_dir : AtOrBelow(e.name, archive_item)}
                   = TarAdd(archived_items[archive_item], archive_item)
        /\ JsonLoad(archive_metadata) = archived_metadata

C27_ConsumedAfterFinalize ==
    [][(archiver_phase = "creator" /\ archive_written) =>
           (archive' = archive /\ archive_metadata' = archive_metadata)]_vars

\* C28: the working directory holds the members whose name begins with the
\* name of an extracted item followed by "/", the directories above them, and
\* nothing else: no member of an item that was not extracted, even one whose
\* name begins alike, and not the metadata member.
C28_ExtractsOnlyTheItem ==
    archiver_phase = "extractor" =>
        LET wanted == {m \in archive :
                          \E archive_item \in extracted :
                              /\ Len(m.name) > Len(archive_item)
                              /\ SubSeq(m.name, 1, Len(archive_item)) = archive_item
                              /\ m.name[Len(archive_item) + 1] = "/"}
        IN  /\ wanted \subseteq work_dir
            /\ \A e \in work_dir \ wanted :
                   /\ e.kind = "dir"
                   /\ \E m \in wanted : AtOrBelow(m.name, e.name) /\ m.name # e.name
            /\ \A e \in work_dir : e.name # METADATA
            /\ \A archive_item \in ItemNames \ extracted :
                   \A e \in work_dir : ~AtOrBelow(e.name, archive_item)

\* the item kc alone has been extracted from an archive that also holds the
\* members of an item kc2
C28_Witness ==
    /\ archiver_phase = "extractor"
    /\ extracted = {KEYCLOAK}
    /\ DOMAIN archived_items = {KEYCLOAK, KC2}
    /\ archived_items[KEYCLOAK] = "export"
    /\ archived_items[KC2] = "export"
    /\ Entry(KEYCLOAK \o <<"/", "x">>, "file", "bytes of x") \in work_dir

\* C29: the metadata member written by finalize holds version, job and
\* archive with the values set at construction, and beside them one entry
\* for each key add_metadata was called with.
C29_MetadataEntry ==
    archive_written =>
        LET written == JsonLoad(archive_metadata)
        IN  /\ {"version", "job", "archive"} \subseteq DOMAIN written
            /\ written["version"] = "v1"
            /\ written["job"] = JobUuid
            /\ written["archive"] = ArchiveUuid
            /\ \A key \in added_keys : key \in DOMAIN written
            /\ DOMAIN written \subseteq {"version", "job", "archive"} \cup added_keys

(* ======================== S3 subtasks: S3.run ========================== *)
(* The run of the S3 subtask of a backup or of a restore: one bucket       *)
(* operation of its McCommands for each bucket of its list, then           *)
(* stop_local.  The operations run as in McSpec; an exception of one ends  *)
(* the run, since S3.run catches none.                                     *)

S3Init ==
    /\ JobAtRest
    /\ ReadinessAtRest
    /\ McBuilt
    /\ CqlshBuilt
    /\ CqlRestoreBuilt
    /\ ArchiverBuilt
    /\ \E direction \in {"backup", "restore"}, buckets \in 0..MaxBuckets :
           S3At("run", direction, buckets)
    /\ ReportsBuilt
    /\ KeycloakRunBuilt
    /\ CassandraBuilt
    /\ SetupBuilt

\* a loop that leaves the last bucket out
BucketsLeft_LastLeftOut == s3_index + 1 < s3_buckets

\* for bucket in self._buckets: a bucket is left
BucketsLeft == s3_index < s3_buckets

\* backup S3.run: mc_commands.backup_bucket(bucket)
S3BackupBucket ==
    /\ s3_pc = "run"
    /\ s3_direction = "backup"
    /\ BucketsLeft
    /\ Called(Operation("backup_bucket", FALSE))
    /\ s3_pc' = "bucket"
    /\ UNCHANGED <<outside_mc_and_s3, s3_direction, s3_buckets, s3_index, stop_calls>>

\* restore S3.run: mc_commands.restore_bucket(bucket, remove_existing_bucket=True)
S3RestoreBucket ==
    /\ s3_pc = "run"
    /\ s3_direction = "restore"
    /\ BucketsLeft
    /\ Called(Operation("restore_bucket", TRUE))
    /\ s3_pc' = "bucket"
    /\ UNCHANGED <<outside_mc_and_s3, s3_direction, s3_buckets, s3_index, stop_calls>>

\* the bucket operation has returned: bucket_report.set_status("Done")
S3BucketDone ==
    /\ s3_pc = "bucket"
    /\ mc_state = "idle"
    /\ s3_index' = s3_index + 1
    /\ s3_pc' = "run"
    /\ UNCHANGED <<outside_mc_and_s3, mc_vars, s3_direction, s3_buckets, stop_calls>>

\* after the loop: mc_commands.stop_local()
S3StopLocal ==
    /\ s3_pc = "run"
    /\ ~BucketsLeft
    /\ Called(Operation("stop_local", FALSE))
    /\ s3_pc' = "stop"
    /\ stop_calls' = stop_calls + 1
    /\ UNCHANGED <<outside_mc_and_s3, s3_direction, s3_buckets, s3_index>>

\* stop_local has returned, and run returns
S3Returns ==
    /\ s3_pc = "stop"
    /\ mc_state = "idle"
    /\ s3_pc' = "done"
    /\ UNCHANGED <<outside_mc_and_s3, mc_vars, s3_direction, s3_buckets, s3_index,
                   stop_calls>>

S3Next ==
    \/ S3BackupBucket
    \/ S3RestoreBucket
    \/ S3BucketDone
    \/ S3StopLocal
    \/ S3Returns
    \/ NeedAliases
    \/ AliasesSetupDone
    \/ Popen
    \/ ReadRecord
    \/ EndOfOutput
    \/ Verify
    \/ RecheckSleep
    \/ VerifyAgain
    \/ OperationReturns

S3Spec == S3Init /\ [][S3Next]_vars

(* ------------------------------- claims -------------------------------- *)

StopArgs == <<"admin", "service", "stop", ALIAS_LOCAL>>

\* the bucket the operation called last creates
CreatedBucket == MirrorTarget

MakeBucketArgs ==
    IF mc_operation.name = "backup_bucket"
    THEN <<"mb", "--ignore-existing", CreatedBucket>>
    ELSE <<"mb", CreatedBucket>>

\* C30: in a run of the S3 subtask of either direction, each bucket operation
\* has the bucket made (in the restore direction after its forced removal)
\* before the mirror starts and issues no stop; the stop of the local store
\* is issued at most once, in the single stop_local called once every bucket
\* of the list has been mirrored and verified; a run that returns has issued
\* it.
C30_StopLocalLast ==
    /\ stop_calls <= 1
    /\ Cardinality(Calls(StopArgs)) <= 1
    /\ Calls(StopArgs) # {} =>
           /\ mc_operation.name = "stop_local"
           /\ s3_pc \in {"stop", "done"}
           /\ s3_index = s3_buckets
    /\ s3_pc = "done" => stop_calls = 1 /\ Returned(StopArgs) # {}
    /\ s3_pc \in {"stop", "done"} => s3_index = s3_buckets
    /\ s3_pc = "bucket" => IsMirrorOperation /\ s3_index < s3_buckets
    /\ IsMirrorOperation =>
           /\ stop_calls = 0
           /\ \A m \in Calls(MirrorArgs(MirrorSource, MirrorTarget)) :
                  \E b \in Returned(MakeBucketArgs) : b < m
           /\ s3_direction = "restore" =>
                  \A b \in Calls(MakeBucketArgs) :
                      \E r \in Returned(<<"rb", "--force", CreatedBucket>>) : r < b
           /\ (s3_pc = "bucket" /\ mc_state = "idle") => TargetMatches

\* a restore of two buckets has returned
C30_Witness ==
    /\ s3_pc = "done"
    /\ s3_direction = "restore"
    /\ s3_buckets = 2
    /\ s3_index = 2
    /\ Returned(StopArgs) # {}

(* ------------- further claims on McCommands, under McSpec -------------- *)

\* the commands of the log that name a bucket or an instance through an
\* alias: all but the registrations themselves
RefersToAlias(event) == event.op = "run" /\ event.arg[1] # "alias"

\* C32: no command that refers to the alias local or cluster is issued
\* before both aliases have been registered.
C32_AliasesBeforeUse ==
    \A k \in DOMAIN mc_log :
        RefersToAlias(mc_log[k]) =>
            /\ RegistrationsOf(ALIAS_LOCAL) # {}
            /\ RegistrationsOf(ALIAS_CLUSTER) # {}

\* C33: a record whose status is neither success nor error is the last one
\* read: the runner has failed at it with the unknown-status error and has
\* not passed it to on_success.
C33_UnknownStatusFails ==
    \A k \in DOMAIN parsed :
        parsed[k].status \notin {"success", "error"} =>
            /\ k = Len(parsed)
            /\ popen = "closed"
            /\ mc_state = "failed"
            /\ mc_exc.kind = "Unknown status in mc output"
            /\ \A j \in DOMAIN handed : handed[j].status = "success"
            /\ Len(handed) <= k - 1

\* the runner of a du has failed at a running record that followed a success
\* record it had passed to on_success
C33_Witness ==
    /\ mc_state = "failed"
    /\ mc_exc.kind = "Unknown status in mc output"
    /\ Len(parsed) = 2
    /\ parsed[1].status = "success"
    /\ parsed[2].status = "running"
    /\ handed = <<parsed[1]>>

\* C34: when a mirror has returned, each disk usage it compared is the
\* (objects, size) of a success record of its du command.
C34_ComparedValuesAreParsed ==
    (IsMirrorOperation /\ McReturned) =>
        \A k \in DOMAIN reads : reads[k].du \in Docs

(* ------------- further claims on restore_ddl, under CqlRestoreSpec ----- *)

\* C35: when restore_ddl has returned, every paragraph of the file is a
\* paragraph of the dump of the keyspace.
C35_NothingMissingFromDump ==
    (restore_op = "restore_ddl" /\ restore_pc = "returned") =>
        Range(Paragraphs(restore_file)) \subseteq Range(Paragraphs(DropFirstLine(restore_out)))

(* ============================== reporting ============================== *)
(* The Report nodes of one Reporting under any sequence of get_sub_report, *)
(* set_status and log calls, and the construction of an Archiver on a      *)
(* node.  A line of the log is kept by the tasks and status it shows.      *)

ReportInit ==
    /\ JobAtRest
    /\ ReadinessAtRest
    /\ McBuilt
    /\ CqlshBuilt
    /\ CqlRestoreBuilt
    /\ ArchiverBuilt
    /\ S3Built
    /\ ReportsBuilt
    /\ KeycloakRunBuilt
    /\ CassandraBuilt
    /\ SetupBuilt

TaskNames_Report == {"McCommands", "_run_command"}

StatusValues == {"in function", "Done"}

\* a Report that keeps the list it is handed and appends its task to it
Constructed_SharedList(nodes, parent, task, init_status) ==
    LET tasks == Append(nodes[parent].tasks, task)
    IN  Append([nodes EXCEPT ![parent].tasks = tasks],
               Node(tasks, init_status, task, parent))

\* Report.__init__ from get_sub_report: self._tasks = [*parents_tasks, task],
\* self._status = init_status
Constructed(nodes, parent, task, init_status) ==
    Append(nodes, Node(nodes[parent].tasks \o <<task>>, init_status, task, parent))

\* report.get_sub_report(task, init_status); the new node logs its status
GetSubReport ==
    /\ Len(reports) < MaxReports
    /\ \E on \in DOMAIN reports, task \in TaskNames_Report, init_status \in StatusValues :
           /\ reports' = Constructed(reports, on, task, init_status)
           /\ called' = [name |-> "get_sub_report", on |-> on]
           /\ last_line' = Line(reports'[Len(reports')])
    /\ UNCHANGED outside_report

\* report.set_status(st)
SetStatus ==
    /\ \E on \in DOMAIN reports, st \in StatusValues :
           /\ reports' = [reports EXCEPT ![on].status = st]
           /\ called' = [name |-> "set_status", on |-> on]
           /\ last_line' = Line(reports'[on])
    /\ UNCHANGED outside_report

\* report.notify(msg), debug(msg), warning(msg) or fatal(msg)
Log ==
    /\ \E on \in DOMAIN reports :
           /\ called' = [name |-> "log", on |-> on]
           /\ last_line' = Line(reports[on])
    /\ UNCHANGED <<outside_report, reports>>

\* Archiver.__init__(report, path_work_dir): a sub-report "Archiver" of the
\* report given, then report.set_status("ComponentInitialized")
ArchiverConstructed ==
    /\ Len(reports) < MaxReports
    /\ \E on \in DOMAIN reports :
           /\ reports' = [Constructed(reports, on, "Archiver", "InitializingComponent")
                             EXCEPT ![on].status = "ComponentInitialized"]
           /\ called' = [name |-> "set_status", on |-> on]
           /\ last_line' = Line(reports'[on])
    /\ UNCHANGED outside_report

ReportNext ==
    \/ GetSubReport
    \/ SetStatus
    \/ Log
    \/ ArchiverConstructed

ReportSpec == ReportInit /\ [][ReportNext]_vars

(* ------------------------------- claims -------------------------------- *)

\* C31: the task list of a node built by get_sub_report is the list of the
\* node it was asked of followed by its own task; no call changes the task
\* list of a node that exists, and the status of a node changes only by a
\* set_status called on that node itself, never by a call on another node.
C31_ParentNeverMutated ==
    /\ [](\A i \in DOMAIN reports :
              reports[i].parent # 0 =>
                  reports[i].tasks = reports[reports[i].parent].tasks \o <<reports[i].task>>)
    /\ [][\A i \in DOMAIN reports :
              /\ reports'[i].tasks = reports[i].tasks
              /\ reports'[i].status # reports[i].status =>
                     called' = [name |-> "set_status", on |-> i]]_vars

\* set_status has been called on a node two levels below the root, whose
\* parent and grandparent keep the status they were built with
C31_Witness ==
    /\ Len(reports) = 3
    /\ reports[2].parent = 1
    /\ reports[3].parent = 2
    /\ called = [name |-> "set_status", on |-> 3]
    /\ reports[3].status = "Done"
    /\ reports[2].status = "in function"
    /\ reports[1].status = "Starting"
    /\ reports[3].tasks = <<"backup", "McCommands", "_run_command">>

(* ================== CqlshCommands: the file of a backup ================ *)
(* backup_table and backup_ddl of src/src/services/cqlsh_commands.py over  *)
(* a target file that may exist before the call.  An operation ends when   *)
(* it returns or when an exception leaves it.                              *)

\* what the target file holds when it exists before the call
OldText == <<"old">>

CqlshFileInit ==
    /\ JobAtRest
    /\ ReadinessAtRest
    /\ McBuilt
    /\ CqlRestoreBuilt
    /\ ArchiverBuilt
    /\ S3Built
    /\ ReportsBuilt
    /\ KeycloakRunBuilt
    /\ CassandraBuilt
    /\ SetupBuilt
    /\ cq_pc = "idle"
    /\ total = Unset
    /\ count = 0
    /\ out = <<>>
    /\ cq_exc = ""
    /\ copies = 0
    /\ path_file_exists \in BOOLEAN
    /\ path_file_text = IF path_file_exists THEN OldText ELSE <<>>

\* the lines DESCRIBE <keyspace> prints
DdlLines == {"CREATE KEYSPACE", "CREATE TABLE"}

\* what _run_command collects from CONSISTENCY ALL; DESCRIBE <keyspace>;
DdlOutputs ==
    {<<>>} \cup {<<Banner>> \o ddl : ddl \in {<<>>} \cup [1..1 -> DdlLines] \cup [1..2 -> DdlLines]}

\* backup_ddl is called
BackupDdl ==
    /\ cq_pc = "idle"
    /\ cq_pc' = "describe"
    /\ UNCHANGED <<outside_cqlsh, total, count, out, path_file_exists, path_file_text,
                   cq_exc, copies>>

\* a backup_ddl that writes what it collected before it looks at the code
DescribeKeyspace_WriteFirst ==
    /\ cq_pc = "describe"
    /\ \E code \in ExitCodes, lines \in DdlOutputs :
           /\ out' = lines
           /\ path_file_exists' = TRUE
           /\ path_file_text' = WithoutFirstLine(lines)
           /\ IF code # 0
              THEN CqRaise("Failure: err")
              ELSE cq_pc' = "returned" /\ UNCHANGED cq_exc
    /\ UNCHANGED <<outside_cqlsh, total, count, copies>>

\* code, out, err = self._run_command(...); if code != 0: raise
\* RuntimeError("Failure: err")
DescribeKeyspace ==
    /\ cq_pc = "describe"
    /\ \E code \in ExitCodes, lines \in DdlOutputs :
           /\ out' = lines
           /\ IF code # 0
              THEN CqRaise("Failure: err")
              ELSE cq_pc' = "write_ddl" /\ UNCHANGED cq_exc
    /\ UNCHANGED <<outside_cqlsh, total, count, path_file_exists, path_file_text, copies>>

\* path_file.write_text(...), and backup_ddl returns
WriteDdl ==
    /\ cq_pc = "write_ddl"
    /\ path_file_exists' = TRUE
    /\ path_file_text' = WithoutFirstLine(out)
    /\ cq_pc' = "returned"
    /\ UNCHANGED <<outside_cqlsh, total, count, out, cq_exc, copies>>

CqlshFileNext ==
    \/ BackupTable
    \/ CountTable
    \/ Copy
    \/ OnLine
    \/ CopyEnds
    \/ CheckCount
    \/ WriteText
    \/ BackupDdl
    \/ DescribeKeyspace
    \/ WriteDdl

CqlshFileSpec == CqlshFileInit /\ [][CqlshFileNext]_vars

(* ------------------------------- claims -------------------------------- *)

\* C36: the target file of backup_table and of backup_ddl is created or
\* changed only by the step with which the operation returns, which for
\* backup_table comes after the row count was found equal; an operation that
\* has returned or failed takes no further step.  So whenever either
\* operation fails by an exception of its own checks or of its command, the
\* file is as it was before the call.
C36_FileOnlyOnSuccess ==
    [][/\ (path_file_exists' # path_file_exists \/ path_file_text' # path_file_text) =>
              /\ cq_pc \in {"write", "write_ddl"}
              /\ cq_pc' = "returned"
              /\ cq_exc' = ""
              /\ cq_pc = "write" => Len(out) - 1 = total
       /\ cq_pc \in {"returned", "failed"} => UNCHANGED cqlsh_vars]_vars

\* backup_ddl has failed on the exit code of its command, which had printed
\* the banner and a line of DDL, and the file that existed before is as it was
C36_Witness ==
    /\ cq_pc = "failed"
    /\ cq_exc = "Failure: err"
    /\ Len(out) = 2
    /\ path_file_exists
    /\ path_file_text = OldText

(* ============================ Keycloak.run ============================= *)
(* The run of the Keycloak subtask, called inside the maintenance window   *)
(* of the task, and the script of the keycloak container that writes the   *)
(* status file at any time.                                                *)

KeycloakRunInit ==
    /\ JobAtRest
    /\ ReadinessAtRest
    /\ McBuilt
    /\ CqlshBuilt
    /\ CqlRestoreBuilt
    /\ ArchiverBuilt
    /\ S3Built
    /\ ReportsBuilt
    /\ CassandraBuilt
    /\ SetupBuilt
    /\ status_file \in StatusFileTexts
    /\ kc_pc = "idle"
    /\ kc_status = <<>>
    /\ previous_status = <<None>>
    /\ kc_reads = 0
    /\ kc_slept = 0
    /\ kc_exc = ""
    /\ window = "entered"

\* a loop that goes on only while the script is setting up
StillWaiting_OnlyOnSetup(st) == st = <<"SETUP">>

\* while status != KeycloakStatus.DONE.value
StillWaiting(st) == st # <<"DONE">>

\* the script of the keycloak container writes the status file
ScriptWrites ==
    /\ status_file' \in StatusFileTexts \ {status_file}
    /\ UNCHANGED <<outside_kc, kc_pc, kc_status, previous_status, kc_reads, kc_slept,
                   kc_exc, window>>

\* run is called: status = self._path_status_file.read_text("UTF-8").strip()
KcRun ==
    /\ kc_pc = "idle"
    /\ kc_pc' = "while"
    /\ kc_status' = Strip(status_file)
    /\ kc_reads' = 1
    /\ UNCHANGED <<outside_kc, status_file, previous_status, kc_slept, kc_exc, window>>

\* the loop is left: report.notify("Done") and run returns
KcDone ==
    /\ kc_pc = "while"
    /\ ~StillWaiting(kc_status)
    /\ kc_pc' = "returned"
    /\ UNCHANGED <<outside_kc, status_file, kc_status, previous_status, kc_reads,
                   kc_slept, kc_exc, window>>

\* if status == KeycloakStatus.ERROR.value: raise RuntimeError
KcError ==
    /\ kc_pc = "while"
    /\ StillWaiting(kc_status)
    /\ kc_status = <<"ERROR">>
    /\ kc_pc' = "failed"
    /\ kc_exc' = "Status file is ERROR"
    /\ UNCHANGED <<outside_kc, status_file, kc_status, previous_status, kc_reads,
                   kc_slept, window>>

\* the rest of the body of the loop: previous_status, time.sleep(5), and
\* the status file is read again
KcSleep ==
    /\ kc_pc = "while"
    /\ StillWaiting(kc_status)
    /\ kc_status # <<"ERROR">>
    /\ kc_reads < MaxPolls
    /\ previous_status' = kc_status
    /\ kc_slept' = kc_slept + StatusPollDelay
    /\ kc_status' = Strip(status_file)
    /\ kc_reads' = kc_reads + 1
    /\ UNCHANGED <<outside_kc, status_file, kc_pc, kc_exc, window>>

\* the with block of the task is left once run has returned or raised
LeaveWindow ==
    /\ kc_pc \in {"returned", "failed"}
    /\ window = "entered"
    /\ window' = "exited"
    /\ UNCHANGED <<outside_kc, status_file, kc_pc, kc_status, previous_status, kc_reads,
                   kc_slept, kc_exc>>

KeycloakRunNext ==
    \/ ScriptWrites
    \/ KcRun
    \/ KcDone
    \/ KcError
    \/ KcSleep
    \/ LeaveWindow

KeycloakRunSpec == KeycloakRunInit /\ [][KeycloakRunNext]_vars

(* ------------------------------- claims -------------------------------- *)

\* run has ended
KcEnded == kc_pc \in {"returned", "failed"}

\* C37: run returns only when the marker it read last is DONE and fails
\* only when it is ERROR, without reading again after either; on any other
\* marker the only step it takes is to sleep 5 seconds and read again,
\* however long it has slept already, so while every marker read is neither
\* DONE nor ERROR run has not ended and the maintenance window is entered.
C37_WaitsForDoneWithoutDeadline ==
    /\ [](/\ kc_pc = "returned" => kc_status = <<"DONE">> /\ kc_exc = ""
          /\ kc_pc = "failed" => kc_status = <<"ERROR">> /\ kc_exc = "Status file is ERROR"
          /\ kc_reads >= 1 => kc_slept = StatusPollDelay * (kc_reads - 1)
          /\ window = "exited" => KcEnded
          /\ (kc_reads >= 1 /\ kc_status \notin {<<"DONE">>, <<"ERROR">>}) =>
                 ~KcEnded /\ window = "entered")
    /\ [][/\ kc_reads' # kc_reads =>
                 /\ kc_reads = 0 \/ kc_status \notin {<<"DONE">>, <<"ERROR">>}
                 /\ kc_status' = Strip(status_file)
                 /\ kc_pc' = "while"
          /\ (kc_pc = "while" /\ kc_pc' # "while") =>
                 \/ kc_status = <<"DONE">> /\ kc_pc' = "returned"
                 \/ kc_status = <<"ERROR">> /\ kc_pc' = "failed"]_vars

\* run has read the status file three times and slept 10 seconds, the
\* file holds SETUP and a newline, and run is still in its loop inside the
\* maintenance window
C37_Witness ==
    /\ kc_pc = "while"
    /\ kc_reads = 3
    /\ kc_slept = 10
    /\ status_file = <<"SETUP", NL>>
    /\ kc_status = <<"SETUP">>
    /\ previous_status = <<"SETUP">>
    /\ window = "entered"

(* ====================== restore: Cassandra.run ========================= *)
(* The run of the Cassandra subtask of the restore task over its lists of  *)
(* keyspaces and tables.  restore_ddl and restore_table are taken by how   *)
(* they end: they return, or an exception leaves them; the directory of    *)
(* the files may be missing, which raises before the call is made.         *)

KeyspaceNames == {"k1", "k2"}

TableNames == {"k1.t1", "k2.t2"}

\* the lists of at most n names
ListsOf(names, n) == UNION {[1..len -> names] : len \in 0..n}

CassandraInit ==
    /\ JobAtRest
    /\ ReadinessAtRest
    /\ McBuilt
    /\ CqlshBuilt
    /\ CqlRestoreBuilt
    /\ ArchiverBuilt
    /\ S3Built
    /\ ReportsBuilt
    /\ KeycloakRunBuilt
    /\ SetupBuilt
    /\ keyspaces \in ListsOf(KeyspaceNames, MaxKeyspaces)
    /\ tables \in ListsOf(TableNames, MaxTables)
    /\ cass_pc = "idle"
    /\ cass_index = 0
    /\ cass_calls = <<>>

\* how the body of a loop ends: the call returns, the call raises, or the
\* directory is missing and _path_dir_maybe_exists raises before the call
CallOutcomes == {"returns", "raises", "no directory"}

\* a loop over the keyspaces that leaves the last one out
KeyspacesLeft_LastLeftOut == cass_index < Len(keyspaces)

\* for keyspace in self._keyspaces
KeyspacesLeft == cass_index <= Len(keyspaces)

\* for table in self._tables
TablesLeft == cass_index <= Len(tables)

CallOf(op, name, outcome) == [op |-> op, name |-> name, ok |-> outcome = "returns"]

\* the body of a loop on one name: the call is made unless the directory is
\* missing, and the loop goes on only if it returns
LoopBody(op, name) ==
    \E outcome \in CallOutcomes :
        /\ cass_calls' = IF outcome = "no directory"
                         THEN cass_calls
                         ELSE Append(cass_calls, CallOf(op, name, outcome))
        /\ IF outcome = "returns"
           THEN cass_index' = cass_index + 1 /\ UNCHANGED cass_pc
           ELSE cass_pc' = "failed" /\ UNCHANGED cass_index

\* run is called: self._report.set_status("Running")
CassRun ==
    /\ cass_pc = "idle"
    /\ cass_pc' = "keyspaces"
    /\ cass_index' = 1
    /\ UNCHANGED <<outside_cass, keyspaces, tables, cass_calls>>

\* self._cqlsh_commands.restore_ddl(keyspace, ..., drop_if_exists=True)
CassRestoreDdl ==
    /\ cass_pc = "keyspaces"
    /\ KeyspacesLeft
    /\ LoopBody("restore_ddl", keyspaces[cass_index])
    /\ UNCHANGED <<outside_cass, keyspaces, tables>>

\* the loop over the keyspaces is over
CassTables ==
    /\ cass_pc = "keyspaces"
    /\ ~KeyspacesLeft
    /\ cass_pc' = "tables"
    /\ cass_index' = 1
    /\ UNCHANGED <<outside_cass, keyspaces, tables, cass_calls>>

\* self._cqlsh_commands.restore_table(table, ..., truncate=True)
CassRestoreTable ==
    /\ cass_pc = "tables"
    /\ TablesLeft
    /\ LoopBody("restore_table", tables[cass_index])
    /\ UNCHANGED <<outside_cass, keyspaces, tables>>

\* the loop over the tables is over: self._report.set_status("Done")
CassReturns ==
    /\ cass_pc = "tables"
    /\ ~TablesLeft
    /\ cass_pc' = "returned"
    /\ UNCHANGED <<outside_cass, keyspaces, tables, cass_index, cass_calls>>

CassandraNext ==
    \/ CassRun
    \/ CassRestoreDdl
    \/ CassTables
    \/ CassRestoreTable
    \/ CassReturns

CassandraSpec == CassandraInit /\ [][CassandraNext]_vars

(* ------------------------------- claims -------------------------------- *)

\* the calls of a run in which nothing fails
CallsPlanned ==
    [k \in 1..(Len(keyspaces) + Len(tables)) |->
        IF k <= Len(keyspaces)
        THEN [op |-> "restore_ddl", name |-> keyspaces[k]]
        ELSE [op |-> "restore_table", name |-> tables[k - Len(keyspaces)]]]

\* C38: the calls run has made are the first ones of: restore_ddl on every
\* keyspace in the order of the list, then restore_table on every table in
\* the order of the list; so a restore_table comes only after restore_ddl
\* has returned for every keyspace.  Only the last call made can have
\* failed, run has then failed and makes no further call; run returns only
\* after every call was made and returned.
C38_KeyspacesThenTablesStopOnFailure ==
    /\ [](/\ Len(cass_calls) <= Len(CallsPlanned)
          /\ \A k \in DOMAIN cass_calls :
                 /\ cass_calls[k].op = CallsPlanned[k].op
                 /\ cass_calls[k].name = CallsPlanned[k].name
                 /\ k < Len(cass_calls) => cass_calls[k].ok
                 /\ ~cass_calls[k].ok => cass_pc = "failed"
                 /\ cass_calls[k].op = "restore_table" =>
                        \A j \in 1..Len(keyspaces) :
                            cass_calls[j].op = "restore_ddl" /\ cass_calls[j].ok
          /\ cass_pc = "returned" =>
                 /\ Len(cass_calls) = Len(CallsPlanned)
                 /\ \A k \in DOMAIN cass_calls : cass_calls[k].ok)
    /\ [][cass_pc = "failed" => UNCHANGED cass_vars]_vars

\* run has failed on the first of two tables after the DDL of two
\* keyspaces was restored
C38_Witness ==
    /\ cass_pc = "failed"
    /\ keyspaces = <<"k1", "k2">>
    /\ tables = <<"k1.t1", "k2.t2">>
    /\ cass_calls = <<CallOf("restore_ddl", "k1", "returns"),
                      CallOf("restore_ddl", "k2", "returns"),
                      CallOf("restore_table", "k1.t1", "raises")>>

(* ============================ setup: Task.run ========================== *)
(* The run of the setup task over the archives a drive holds, with or      *)
(* without an archive name.  Names are sequences of code points, compared  *)
(* as Python compares str.                                                 *)

\* the code points of "1" and "2"
NameChars == {49, 50}

ArchiveNames == [1..1 -> NameChars] \cup [1..2 -> NameChars]

\* the FileInformation of the files of a drive: the k-th has file id k
Drives ==
    UNION {{[k \in 1..len |-> [name |-> names[k], file_id |-> k]] :
                names \in [1..len -> ArchiveNames]} : len \in 0..MaxArchives}

SetupInit ==
    /\ JobAtRest
    /\ ReadinessAtRest
    /\ McBuilt
    /\ CqlshBuilt
    /\ CqlRestoreBuilt
    /\ ArchiverBuilt
    /\ S3Built
    /\ ReportsBuilt
    /\ KeycloakRunBuilt
    /\ CassandraBuilt
    /\ drive \in Drives
    /\ archive_name \in {NoArchiveName} \cup ArchiveNames
    /\ SetupNotRun

\* a < b for two str
RECURSIVE Less(_, _)
Less(a, b) ==
    IF b = <<>> THEN FALSE
    ELSE IF a = <<>> THEN TRUE
    ELSE IF Head(a) # Head(b) THEN Head(a) < Head(b)
    ELSE Less(Tail(a), Tail(b))

\* sorted(list, key=lambda arc: arc.name): stable, so an element goes after
\* those already placed whose name is not greater
Insert(arc, placed) ==
    LET before == Cardinality({k \in DOMAIN placed : ~Less(arc.name, placed[k].name)})
    IN  SubSeq(placed, 1, before) \o <<arc>> \o SubSeq(placed, before + 1, Len(placed))

RECURSIVE Sorted(_)
Sorted(list) ==
    IF list = <<>> THEN <<>>
    ELSE Insert(list[Len(list)], Sorted(SubSeq(list, 1, Len(list) - 1)))

\* the archive listed last, whatever its name
LastArchive_AsListed(list) == list[Len(list)]

\* sorted(archives, key=lambda arc: arc.name)[len(archives) - 1]
LastArchive(list) == Sorted(list)[Len(list)]

SetupRaise(message) ==
    /\ setup_pc' = "failed"
    /\ setup_exc' = message

\* run is called: the keycloak status file and script are set up
SetupRun ==
    /\ setup_pc = "idle"
    /\ setup_pc' = "archive"
    /\ setup_status_file' = <<"SETUP", "\n">>
    /\ UNCHANGED <<outside_setup, drive, archive_name, listed, archives, archive_id,
                   downloaded, setup_extracted, setup_exc>>

\* _setup_last_archive
SetupLastArchive ==
    /\ setup_pc = "archive"
    /\ archive_name = NoArchiveName
    /\ \E outcome \in {"listed", "HttpError"} :
           IF outcome = "HttpError"
           THEN /\ SetupRaise("listing drive archives failed with HttpError")
                /\ UNCHANGED <<listed, archives, archive_id>>
           ELSE /\ listed' = TRUE
                /\ archives' = drive
                /\ IF Len(drive) = 0
                   THEN /\ setup_pc' = "returned"
                        /\ UNCHANGED <<archive_id, setup_exc>>
                   ELSE /\ archive_id' = LastArchive(drive).file_id
                        /\ setup_pc' = "__setup_archive"
                        /\ UNCHANGED setup_exc
    /\ UNCHANGED <<outside_setup, drive, archive_name, downloaded, setup_extracted,
                   setup_status_file>>

\* _setup_explicit_archive(archive_name)
SetupExplicitArchive ==
    /\ setup_pc = "archive"
    /\ archive_name # NoArchiveName
    /\ LET ids == {drive[k].file_id : k \in {j \in DOMAIN drive : drive[j].name = archive_name}}
       IN  CASE ids = {} ->
                    /\ SetupRaise("not found in Google Drive")
                    /\ UNCHANGED archive_id
             [] Cardinality(ids) > 1 ->
                    /\ SetupRaise("More than one archive named")
                    /\ UNCHANGED archive_id
             [] OTHER ->
                    /\ archive_id' = CHOOSE id \in ids : TRUE
                    /\ setup_pc' = "__setup_archive"
                    /\ UNCHANGED setup_exc
    /\ UNCHANGED <<outside_setup, drive, archive_name, listed, archives, downloaded,
                   setup_extracted, setup_status_file>>

\* __setup_archive(archive_id): download, extract the items, unlink
SetupArchive ==
    /\ setup_pc = "__setup_archive"
    /\ downloaded' = archive_id
    /\ \E outcome \in {"returns", "raises"} :
           IF outcome = "returns"
           THEN /\ setup_extracted' = TRUE
                /\ setup_pc' = "returned"
                /\ UNCHANGED setup_exc
           ELSE /\ SetupRaise("download or extraction failed")
                /\ UNCHANGED setup_extracted
    /\ UNCHANGED <<outside_setup, drive, archive_name, listed, archives, archive_id,
                   setup_status_file>>

SetupNext ==
    \/ SetupRun
    \/ SetupLastArchive
    \/ SetupExplicitArchive
    \/ SetupArchive

SetupSpec == SetupInit /\ [][SetupNext]_vars

(* ------------------------------- claims -------------------------------- *)

\* C39: without an archive name, the archive setup downloads is one the
\* drive listed and no listed archive has a greater name; once a non-empty
\* list is returned setup goes on to download; and when the list returned
\* is empty setup has returned, without an exception, having downloaded and
\* extracted nothing.
C39_GreatestNameOrNothing ==
    archive_name = NoArchiveName =>
        /\ downloaded # 0 =>
               /\ listed
               /\ \E k \in DOMAIN archives :
                      /\ archives[k].file_id = downloaded
                      /\ \A j \in DOMAIN archives : ~Less(archives[k].name, archives[j].name)
        /\ (listed /\ archives # <<>>) =>
               /\ setup_pc = "__setup_archive" \/ downloaded # 0
               /\ setup_pc = "returned" => setup_extracted
        /\ (listed /\ archives = <<>>) =>
               /\ setup_pc = "returned"
               /\ setup_exc = ""
               /\ downloaded = 0
               /\ ~setup_extracted

\* setup without a name has returned over a drive listing "1", "2" and
\* "12" in that order, having downloaded and extracted "2"
C39_Witness ==
    /\ archive_name = NoArchiveName
    /\ setup_pc = "returned"
    /\ Len(archives) = 3
    /\ archives[1].name = <<49>>
    /\ archives[2].name = <<50>>
    /\ archives[3].name = <<49, 50>>
    /\ downloaded = 2
    /\ setup_extracted

====
